---- MODULE Spec2Model ----
(***************************************************************************)
(* A model of the tedium TDMS library: the segment index builder           *)
(* (FileScanner, src/index.rs), the data blocks and their reads            *)
(* (DataBlock, src/raw_data/mod.rs), the storage types and their bytes     *)
(* (src/data_types.rs) and the file writer (src/file/file_writer.rs).      *)
(*                                                                         *)
(* Rust values are modelled as follows.                                    *)
(*   Option<T>      <<>> for None, <<x>> for Some(x)                       *)
(*   Vec<T>         a sequence; Rust indices are 0-based, so element i of  *)
(*                  a Vec v is v[i + 1]                                    *)
(*   HashMap<K, V>  a function whose DOMAIN is the key set                 *)
(*   u64            four 16-bit limbs, least significant first, so that    *)
(*                  the arithmetic keeps its 64-bit width                  *)
(***************************************************************************)
EXTENDS Integers, Sequences, FiniteSets, TLC

VARIABLES
    active_objects,      \* FileScanner.active_objects: paths, in order
    object_registry,     \* FileScanner.object_registry: path -> ObjectData
    data_blocks,         \* FileScanner.data_blocks
    next_segment_start,  \* FileScanner.next_segment_start (u64)
    pc,                  \* "scanning", "panicked" or "indexed"
    panic,               \* the panic message of the call that panicked, else ""
    overflow_checks,     \* the build: TRUE panics on u64 overflow, FALSE wraps
    segments,            \* the segments submitted so far, in order
    before,              \* the scanner at the entry of the last operation
    readers,             \* per reader of the Index: its last query and result
    writer,              \* the TdmsFileWriter and the calls made on it
    codec,               \* the value a TdmsStorageType call wrote or read
    block_read           \* the last DataBlock read and what it left behind

vars == <<active_objects, object_registry, data_blocks, next_segment_start,
          pc, panic, overflow_checks, segments, before, readers, writer,
          codec, block_read>>

-----------------------------------------------------------------------------
(* Bounds of the model.                                                    *)

\* add_segment_to_index calls in one run
MaxSegments == 2

\* object entries listed by all the segments of one run together
MaxEntries == 2

\* the same for the runs that list their channels anew between two blocks
MaxRelistSegments == 3
MaxRelistEntries == 3

-----------------------------------------------------------------------------
(* u64 arithmetic.                                                         *)

Limb == 2 ^ 16

U64(n) == <<n % Limb, (n \div Limb) % Limb, 0, 0>>

U64_MAX == <<Limb - 1, Limb - 1, Limb - 1, Limb - 1>>

\* a + b over the integers is  value + carry * 2^64
u64_add(a, b) ==
    LET s1 == a[1] + b[1]
        s2 == a[2] + b[2] + (s1 \div Limb)
        s3 == a[3] + b[3] + (s2 \div Limb)
        s4 == a[4] + b[4] + (s3 \div Limb)
    IN  [value    |-> <<s1 % Limb, s2 % Limb, s3 % Limb, s4 % Limb>>,
         overflow |-> s4 \div Limb > 0]

\* a - b over the integers is  value - borrow * 2^64
u64_sub(a, b) ==
    LET d1 == a[1] - b[1]
        b1 == IF d1 < 0 THEN 1 ELSE 0
        d2 == a[2] - b[2] - b1
        b2 == IF d2 < 0 THEN 1 ELSE 0
        d3 == a[3] - b[3] - b2
        b3 == IF d3 < 0 THEN 1 ELSE 0
        d4 == a[4] - b[4] - b3
    IN  [value    |-> <<d1 % Limb, d2 % Limb, d3 % Limb, d4 % Limb>>,
         overflow |-> d4 < 0]

u64_lt(a, b) ==
    \/ a[4] < b[4]
    \/ a[4] = b[4] /\ a[3] < b[3]
    \/ a[4] = b[4] /\ a[3] = b[3] /\ a[2] < b[2]
    \/ a[4] = b[4] /\ a[3] = b[3] /\ a[2] = b[2] /\ a[1] < b[1]

u64_le(a, b) == a = b \/ u64_lt(a, b)

LEAD_IN_BYTES == U64(28)

-----------------------------------------------------------------------------
(* Option and panic messages.                                              *)

None == <<>>
Some(x) == <<x>>

NoPanic == ""
PanicNoFormat == "Getting data format from object that never had one"
PanicNotRegistered == "Should always have a registered version of active object"
PanicReplacing == "Should not be possible to be replacing an existing object."
PanicAddOverflow == "attempt to add with overflow"
PanicSubOverflow == "attempt to subtract with overflow"

-----------------------------------------------------------------------------
(* HashMap.                                                                *)

EmptyMap == <<>>

\* HashMap::insert: the map afterwards
map_insert(m, k, v) == [x \in DOMAIN m \cup {k} |-> IF x = k THEN v ELSE m[x]]

\* HashMap::insert: the value returned, the old entry of the key
map_insert_old(m, k) == IF k \in DOMAIN m THEN Some(m[k]) ELSE None

-----------------------------------------------------------------------------
(* ObjectData.                                                             *)

\* DataFormat::from_index
DataFormat_from_index(index) ==
    IF index.kind = "RawData" THEN Some([RawData |-> index.raw_meta]) ELSE None

\* an update that forgets the names its pairs do not set
insert_properties_forgetting(properties, pairs) ==
    [name \in {pairs[i][1] : i \in 1..Len(pairs)} |->
        pairs[CHOOSE i \in 1..Len(pairs) :
                  /\ pairs[i][1] = name
                  /\ \A j \in 1..Len(pairs) : pairs[j][1] = name => j <= i][2]]

\* the loop of ObjectData::update: insert every (name, value) pair in order
RECURSIVE insert_properties(_, _)
insert_properties(properties, pairs) ==
    IF pairs = <<>> THEN properties
    ELSE insert_properties(map_insert(properties, Head(pairs)[1], Head(pairs)[2]),
                           Tail(pairs))

\* an update that takes the format of every entry, also of one without
ObjectData_update_format_of_every_entry(self, other) ==
    [self EXCEPT
        !.properties = insert_properties(self.properties, other.properties),
        !.latest_data_format = DataFormat_from_index(other.raw_data_index)]

\* an update that keeps the value a name already has
ObjectData_update_keeping(self, other) ==
    LET format == DataFormat_from_index(other.raw_data_index)
        new == insert_properties(EmptyMap, other.properties)
    IN  [self EXCEPT
            !.properties =
                [name \in DOMAIN self.properties \cup DOMAIN new |->
                    IF name \in DOMAIN self.properties
                    THEN self.properties[name] ELSE new[name]],
            !.latest_data_format =
                IF format # None THEN format ELSE self.latest_data_format]

\* an update that keeps the format an object already has
ObjectData_update_keeping_format(self, other) ==
    LET format == DataFormat_from_index(other.raw_data_index)
    IN  [self EXCEPT
            !.properties = insert_properties(self.properties, other.properties),
            !.latest_data_format =
                IF self.latest_data_format # None THEN self.latest_data_format
                ELSE format]

\* ObjectData::update
ObjectData_update(self, other) ==
    LET format == DataFormat_from_index(other.raw_data_index)
    IN  [self EXCEPT
            !.properties = insert_properties(self.properties, other.properties),
            !.latest_data_format =
                IF format # None THEN format ELSE self.latest_data_format]

ObjectData_from_metadata(meta) ==
    ObjectData_update([path               |-> meta.path,
                       properties         |-> EmptyMap,
                       data_locations     |-> <<>>,
                       latest_data_format |-> None],
                      meta)

ObjectData_add_data_location(self, location) ==
    [self EXCEPT !.data_locations = Append(self.data_locations, location)]

-----------------------------------------------------------------------------
(* FileScanner.  A scanner value is a record                               *)
(*   [active_objects, object_registry, data_blocks, next_segment_start,    *)
(*    panic]                                                               *)
(* and every method maps the scanner before to the scanner after.  A       *)
(* panic stops the call where it is raised: the fields keep what the call  *)
(* had written until then and panic holds the message.                     *)

FileScanner_new ==
    [active_objects     |-> <<>>,
     object_registry    |-> EmptyMap,
     data_blocks        |-> <<>>,
     next_segment_start |-> U64(0),
     panic              |-> NoPanic]

Panicked(self, message) == [self EXCEPT !.panic = message]

\* deactivate_all_objects, were it to drop the registry with the list
deactivate_all_objects_and_registry(self) ==
    [self EXCEPT !.active_objects = <<>>, !.object_registry = EmptyMap]

\* a scanner that keeps its active objects
deactivate_no_object(self) == self

\* FileScanner::deactivate_all_objects
deactivate_all_objects(self) == [self EXCEPT !.active_objects = <<>>]

\* update_meta_object, were it to activate the object it updates
update_meta_object_activating(self, object) ==
    LET listed == IF \E i \in 1..Len(self.active_objects) :
                         self.active_objects[i] = object.path
                  THEN self
                  ELSE [self EXCEPT !.active_objects = Append(@, object.path)]
    IN  IF object.path \in DOMAIN self.object_registry
        THEN [listed EXCEPT !.object_registry[object.path] =
                                ObjectData_update(@, object)]
        ELSE [listed EXCEPT !.object_registry =
                  map_insert(@, object.path, ObjectData_from_metadata(object))]

\* FileScanner::update_meta_object
update_meta_object(self, object) ==
    IF object.path \in DOMAIN self.object_registry
    THEN [self EXCEPT !.object_registry[object.path] =
                          ObjectData_update(@, object)]
    ELSE LET object_data == ObjectData_from_metadata(object)
             old == map_insert_old(self.object_registry, object_data.path)
             inserted == [self EXCEPT !.object_registry =
                              map_insert(@, object_data.path, object_data)]
         IN  IF old = None THEN inserted ELSE Panicked(inserted, PanicReplacing)

\* the position of the first active object with this path, 0 if there is none
find_active(active, path) ==
    IF \E i \in 1..Len(active) : active[i] = path
    THEN CHOOSE i \in 1..Len(active) :
             /\ active[i] = path
             /\ \A j \in 1..(i - 1) : active[j] # path
    ELSE 0

\* update_or_activate_data_object, were it to activate without looking
\* for the object in the active list
update_or_activate_without_find(self, object) ==
    update_meta_object(
        [self EXCEPT !.active_objects = Append(@, object.path)], object)

\* update_or_activate_data_object, were it to activate an object without
\* registering it
update_or_activate_unregistered(self, object) ==
    IF find_active(self.active_objects, object.path) # 0
    THEN IF object.path \in DOMAIN self.object_registry
         THEN [self EXCEPT !.object_registry[object.path] =
                               ObjectData_update(@, object)]
         ELSE Panicked(self, PanicNotRegistered)
    ELSE [self EXCEPT !.active_objects = Append(@, object.path)]

\* update_or_activate_data_object, were it to activate at the front
update_or_activate_at_front(self, object) ==
    IF find_active(self.active_objects, object.path) # 0
    THEN IF object.path \in DOMAIN self.object_registry
         THEN [self EXCEPT !.object_registry[object.path] =
                               ObjectData_update(@, object)]
         ELSE Panicked(self, PanicNotRegistered)
    ELSE update_meta_object(
             [self EXCEPT !.active_objects = <<object.path>> \o @], object)

\* FileScanner::update_or_activate_data_object
update_or_activate_data_object(self, object) ==
    IF find_active(self.active_objects, object.path) # 0
    THEN IF object.path \in DOMAIN self.object_registry
         THEN [self EXCEPT !.object_registry[object.path] =
                               ObjectData_update(@, object)]
         ELSE Panicked(self, PanicNotRegistered)
    ELSE update_meta_object(
             [self EXCEPT !.active_objects = Append(@, object.path)], object)

\* the for_each of add_segment_to_index over segment.objects
RECURSIVE update_objects(_, _)
update_objects(self, objects) ==
    IF objects = <<>> \/ self.panic # NoPanic THEN self
    ELSE update_objects(
             IF Head(objects).raw_data_index.kind = "None"
             THEN update_meta_object(self, Head(objects))
             ELSE update_or_activate_data_object(self, Head(objects)),
             Tail(objects))

\* the active objects the registry has no usable entry for
unusable_active(self) ==
    {i \in 1..Len(self.active_objects) :
        \/ self.active_objects[i] \notin DOMAIN self.object_registry
        \/ self.object_registry[self.active_objects[i]].latest_data_format = None}

\* get_active_raw_data_meta, were it to collect the formats back to front
get_active_raw_data_meta_reversed(self) ==
    LET active == self.active_objects
        registry == self.object_registry
        bad == unusable_active(self)
    IN  IF bad = {}
        THEN [metas |-> [i \in 1..Len(active) |->
                            registry[active[Len(active) + 1 - i]]
                                .latest_data_format[1].RawData],
              panic |-> NoPanic]
        ELSE [metas |-> <<>>, panic |-> PanicNoFormat]

\* FileScanner::get_active_raw_data_meta: [metas, panic].  The iterator
\* panics at the first active object that is not registered or has no format.
get_active_raw_data_meta(self) ==
    LET active == self.active_objects
        registry == self.object_registry
        bad == unusable_active(self)
        first == CHOOSE i \in bad : \A j \in bad : i <= j
    IN  IF bad = {}
        THEN [metas |-> [i \in 1..Len(active) |->
                            registry[active[i]].latest_data_format[1].RawData],
              panic |-> NoPanic]
        ELSE [metas |-> <<>>,
              panic |-> IF active[first] \notin DOMAIN registry
                        THEN PanicNotRegistered ELSE PanicNoFormat]

\* a loop that gives every active object channel 0
add_locations_first_channel(self, data_index, channel_index) ==
    [self EXCEPT !.object_registry =
        [path \in DOMAIN self.object_registry |->
            IF \E i \in 1..Len(self.active_objects) :
                   self.active_objects[i] = path
            THEN ObjectData_add_data_location(
                     self.object_registry[path],
                     [data_block |-> data_index, channel_index |-> 0])
            ELSE self.object_registry[path]]]

\* the loop of insert_data_block: one location per active object
RECURSIVE add_locations(_, _, _)
add_locations(self, data_index, channel_index) ==
    IF channel_index >= Len(self.active_objects) \/ self.panic # NoPanic
    THEN self
    ELSE LET path == self.active_objects[channel_index + 1]
             location == [data_block    |-> data_index,
                          channel_index |-> channel_index]
         IN  add_locations(
                 IF path \in DOMAIN self.object_registry
                 THEN [self EXCEPT !.object_registry[path] =
                          ObjectData_add_data_location(@, location)]
                 ELSE Panicked(self, PanicNotRegistered),
                 data_index, channel_index + 1)

\* insert_data_block, were it to bring the channels of the earlier blocks
\* up to date with the new block
insert_data_block_refreshing(self, block) ==
    add_locations(
        [self EXCEPT !.data_blocks =
            Append([b \in 1..Len(@) |-> [@[b] EXCEPT !.channels = block.channels]],
                   block)],
        Len(self.data_blocks), 0)

\* insert_data_block, were it to put the new block in front of the others
insert_data_block_at_front(self, block) ==
    add_locations([self EXCEPT !.data_blocks = <<block>> \o @], 0, 0)

\* insert_data_block, were it to take the block index after the push
insert_data_block_index_after_push(self, block) ==
    LET pushed == [self EXCEPT !.data_blocks = Append(@, block)]
    IN  add_locations(pushed, Len(pushed.data_blocks), 0)

\* FileScanner::insert_data_block
insert_data_block(self, block) ==
    LET data_index == Len(self.data_blocks)
    IN  add_locations([self EXCEPT !.data_blocks = Append(@, block)],
                      data_index, 0)

-----------------------------------------------------------------------------
(* DataBlock.                                                              *)

\* a block that is contiguous and little-endian whatever the ToC says
DataBlock_from_segment_ignoring_toc(segment, segment_start, active_channels_meta, checks) ==
    LET sum1 == u64_add(segment.raw_data_offset, LEAD_IN_BYTES)
        sum2 == u64_add(sum1.value, segment_start)
        diff == u64_sub(segment.next_segment_offset, segment.raw_data_offset)
        block == [start      |-> sum2.value,
                  length     |-> diff.value,
                  layout     |-> "Contigious",
                  channels   |-> active_channels_meta,
                  byte_order |-> "Little"]
    IN  IF checks /\ (sum1.overflow \/ sum2.overflow)
        THEN [block |-> block, panic |-> PanicAddOverflow]
        ELSE IF checks /\ diff.overflow
        THEN [block |-> block, panic |-> PanicSubOverflow]
        ELSE [block |-> block, panic |-> NoPanic]

\* DataBlock::from_segment: [block, panic].  start and length are computed
\* in this order; checks says whether the build panics on overflow.
DataBlock_from_segment(segment, segment_start, active_channels_meta, checks) ==
    LET byte_order == IF segment.toc.big_endian THEN "Big" ELSE "Little"
        layout == IF segment.toc.data_is_interleaved
                  THEN "Interleaved" ELSE "Contigious"
        sum1 == u64_add(segment.raw_data_offset, LEAD_IN_BYTES)
        sum2 == u64_add(sum1.value, segment_start)
        diff == u64_sub(segment.next_segment_offset, segment.raw_data_offset)
        block == [start      |-> sum2.value,
                  length     |-> diff.value,
                  layout     |-> layout,
                  channels   |-> active_channels_meta,
                  byte_order |-> byte_order]
    IN  IF checks /\ (sum1.overflow \/ sum2.overflow)
        THEN [block |-> block, panic |-> PanicAddOverflow]
        ELSE IF checks /\ diff.overflow
        THEN [block |-> block, panic |-> PanicSubOverflow]
        ELSE [block |-> block, panic |-> NoPanic]

-----------------------------------------------------------------------------
(* add_segment_to_index.                                                   *)

\* SegmentMetaData::total_size_bytes: [value, overflow]
total_size_bytes(segment) == u64_add(segment.next_segment_offset, LEAD_IN_BYTES)

\* the last statement of add_segment_to_index
advance_next_segment_start(self, segment, checks) ==
    LET size == total_size_bytes(segment)
        sum == u64_add(self.next_segment_start, size.value)
    IN  IF self.panic # NoPanic THEN self
        ELSE IF checks /\ (size.overflow \/ sum.overflow)
        THEN Panicked(self, PanicAddOverflow)
        ELSE [self EXCEPT !.next_segment_start = sum.value]

\* insert_data_block(DataBlock::from_segment(..)), given the outcomes of
\* get_active_raw_data_meta and DataBlock::from_segment
insert_made_block(self, meta, made) ==
    IF meta.panic # NoPanic THEN Panicked(self, meta.panic)
    ELSE IF made.panic # NoPanic THEN Panicked(self, made.panic)
    ELSE insert_data_block(self, made.block)

\* the raw-data branch of add_segment_to_index: the arguments of
\* from_segment are evaluated first, get_active_raw_data_meta among them
add_data_block(self, segment, checks, meta) ==
    insert_made_block(
        self, meta,
        DataBlock_from_segment(segment, self.next_segment_start,
                               meta.metas, checks))

\* a scanner that makes a block for every segment
add_block_for_every_segment(self, segment, checks) ==
    IF self.panic # NoPanic THEN self
    ELSE advance_next_segment_start(
             add_data_block(self, segment, checks,
                            get_active_raw_data_meta(self)),
             segment, checks)

\* add_segment_to_index from "if segment.toc.contains_raw_data" on
add_block_and_advance(self, segment, checks) ==
    IF self.panic # NoPanic THEN self
    ELSE IF segment.toc.contains_raw_data
    THEN advance_next_segment_start(
             add_data_block(self, segment, checks,
                            get_active_raw_data_meta(self)),
             segment, checks)
    ELSE advance_next_segment_start(self, segment, checks)

\* FileScanner::add_segment_to_index
add_segment_to_index(self, segment, checks) ==
    add_block_and_advance(
        update_objects(IF segment.toc.contains_new_object_list
                       THEN deactivate_all_objects(self) ELSE self,
                       segment.objects),
        segment, checks)

\* into_index, were it to hand over the objects without their locations
into_index_without_locations(self) ==
    [objects     |-> [path \in DOMAIN self.object_registry |->
                         [self.object_registry[path] EXCEPT
                             !.data_locations = <<>>]],
     data_blocks |-> self.data_blocks]

\* FileScanner::into_index: the Index is [objects, data_blocks]
into_index(self) ==
    LET inactive == deactivate_all_objects(self)
    IN  [objects     |-> inactive.object_registry,
         data_blocks |-> inactive.data_blocks]

-----------------------------------------------------------------------------
(* Index: [objects, data_blocks].                                          *)

\* ObjectData::get_all_properties: the pairs of the map; a HashMap yields
\* them in no particular order, so they are kept as a set
ObjectData_get_all_properties(self) ==
    {<<name, self.properties[name]>> : name \in DOMAIN self.properties}

\* Index::get_object_properties
get_object_properties(self, path) ==
    IF path \in DOMAIN self.objects
    THEN Some(ObjectData_get_all_properties(self.objects[path]))
    ELSE None

\* TdmsError::MissingObject
MissingObject(path) == [error |-> "MissingObject", path |-> path]

\* Result
Ok(value) == [ok |-> value]
Err(error) == [err |-> error]

\* get_object_property, were it to take a missing object for a missing
\* property
get_object_property_lenient(self, path, property) ==
    IF path \in DOMAIN self.objects
           /\ property \in DOMAIN self.objects[path].properties
    THEN Ok(Some(self.objects[path].properties[property]))
    ELSE Ok(None)

\* Index::get_object_property
get_object_property(self, path, property) ==
    IF path \notin DOMAIN self.objects THEN Err(MissingObject(path))
    ELSE IF property \in DOMAIN self.objects[path].properties
    THEN Ok(Some(self.objects[path].properties[property]))
    ELSE Ok(None)

\* Index::get_channel_data_positions
get_channel_data_positions(self, path) ==
    IF path \in DOMAIN self.objects
    THEN Some(self.objects[path].data_locations)
    ELSE None

\* Index::get_data_block: index is a usize, counted from 0
get_data_block(self, index) ==
    IF index < Len(self.data_blocks)
    THEN Some(self.data_blocks[index + 1])
    ELSE None

-----------------------------------------------------------------------------
(* The segments submitted to a scanner.                                    *)

DoubleFloat1000 ==
    [data_type |-> "DoubleFloat", number_of_values |-> 1000,
     total_size_bytes |-> None]

I32x500 ==
    [data_type |-> "I32", number_of_values |-> 500, total_size_bytes |-> None]

RawMetas == {DoubleFloat1000, I32x500}

\* RawDataIndex
IndexNone == [kind |-> "None"]
IndexMatchPrevious == [kind |-> "MatchPrevious"]
IndexDAQmx == [kind |-> "DAQmx"]
IndexRawData(meta) == [kind |-> "RawData", raw_meta |-> meta]

RawDataIndexes ==
    {IndexNone, IndexMatchPrevious, IndexDAQmx}
        \cup {IndexRawData(meta) : meta \in RawMetas}

\* ObjectMetaData
ObjectMetaDatas(paths, property_lists, indexes) ==
    {[path |-> p, properties |-> ps, raw_data_index |-> ix] :
        p \in paths, ps \in property_lists, ix \in indexes}

\* ToC
ToCs(meta, new_list, raw, interleaved, big) ==
    {[contains_meta_data       |-> m,
      contains_new_object_list |-> n,
      contains_raw_data        |-> r,
      data_is_interleaved      |-> i,
      big_endian               |-> b] :
        m \in meta, n \in new_list, r \in raw, i \in interleaved, b \in big}

\* the lists of exactly n elements of a set
ListsOf(set, n) == [1..n -> set]

\* SegmentMetaData
SegmentMetaDatas(tocs, next_offsets, raw_offsets, object_lists) ==
    {[toc                 |-> t,
      next_segment_offset |-> n,
      raw_data_offset     |-> r,
      objects             |-> os] :
        t \in tocs, n \in next_offsets, r \in raw_offsets, os \in object_lists}

RECURSIVE Entries(_)
Entries(segs) ==
    IF segs = <<>> THEN 0 ELSE Len(Head(segs).objects) + Entries(Tail(segs))

\* the object lists a run of at most max_entries entries may still submit
ListsWithin(objects, max_entries) ==
    UNION {ListsOf(objects, n) : n \in 0..(max_entries - Entries(segments))}

\* the object lists a run may still submit
ListsLeft(objects) == ListsWithin(objects, MaxEntries)

-----------------------------------------------------------------------------
(* The state machine.                                                      *)

\* the threads that share the Index
Readers == {"reader1", "reader2"}

Scanner ==
    [active_objects     |-> active_objects,
     object_registry    |-> object_registry,
     data_blocks        |-> data_blocks,
     next_segment_start |-> next_segment_start,
     panic              |-> panic]

InitScanner ==
    /\ active_objects = FileScanner_new.active_objects
    /\ object_registry = FileScanner_new.object_registry
    /\ data_blocks = FileScanner_new.data_blocks
    /\ next_segment_start = FileScanner_new.next_segment_start
    /\ panic = FileScanner_new.panic
    /\ pc = "scanning"
    /\ overflow_checks \in BOOLEAN
    /\ segments = <<>>
    /\ before = FileScanner_new
    /\ readers = [reader \in Readers |-> None]

\* a run of the scanner: no writer, no codec call and no block read
Init ==
    /\ InitScanner
    /\ writer = None
    /\ codec = None
    /\ block_read = None

\* one call of add_segment_to_index in a run of at most max_segments calls
\* and max_entries object entries; a panic ends the run
AddSegmentWithin(segment, max_segments, max_entries) ==
    /\ pc = "scanning"
    /\ Len(segments) < max_segments
    /\ Entries(segments) + Len(segment.objects) <= max_entries
    /\ \E after \in {add_segment_to_index(Scanner, segment, overflow_checks)} :
           /\ active_objects' = after.active_objects
           /\ object_registry' = after.object_registry
           /\ data_blocks' = after.data_blocks
           /\ next_segment_start' = after.next_segment_start
           /\ panic' = after.panic
           /\ pc' = IF after.panic = NoPanic THEN "scanning" ELSE "panicked"
    /\ segments' = Append(segments, segment)
    /\ before' = Scanner
    /\ UNCHANGED <<overflow_checks, readers, writer, codec, block_read>>

AddSegment(segment) == AddSegmentWithin(segment, MaxSegments, MaxEntries)

\* the scanner takes another segment in a run of at most max_segments calls
Accepting(max_segments) == pc = "scanning" /\ Len(segments) < max_segments

\* into_index consumes the scanner
IntoIndex ==
    /\ pc = "scanning"
    /\ LET index == into_index(Scanner)
       IN  /\ active_objects' = <<>>
           /\ object_registry' = index.objects
           /\ data_blocks' = index.data_blocks
    /\ pc' = "indexed"
    /\ before' = Scanner
    /\ UNCHANGED <<next_segment_start, panic, overflow_checks, segments,
                   readers, writer, codec, block_read>>

\* the Index that into_index made of the scanner
TheIndex == [objects |-> object_registry, data_blocks |-> data_blocks]

\* the calls a reader makes on the Index
Queries(paths, properties, indexes) ==
    {[method |-> "get_object_properties", path |-> p] : p \in paths}
    \cup {[method |-> "get_object_property", path |-> p, property |-> n] :
              p \in paths, n \in properties}
    \cup {[method |-> "get_channel_data_positions", path |-> p] : p \in paths}
    \cup {[method |-> "get_data_block", index |-> i] : i \in indexes}

\* what a call returns
Answer(index, query) ==
    CASE query.method = "get_object_properties" ->
             get_object_properties(index, query.path)
      [] query.method = "get_object_property" ->
             get_object_property(index, query.path, query.property)
      [] query.method = "get_channel_data_positions" ->
             get_channel_data_positions(index, query.path)
      [] query.method = "get_data_block" ->
             get_data_block(index, query.index)

\* one call of a reader on the Index; the methods take &self
Query(reader, query) ==
    /\ pc = "indexed"
    /\ readers' = [readers EXCEPT
                      ![reader] = Some([query  |-> query,
                                        result |-> Answer(TheIndex, query)])]
    /\ UNCHANGED <<active_objects, object_registry, data_blocks,
                   next_segment_start, pc, panic, overflow_checks, segments,
                   before, writer, codec, block_read>>

\* Spec: channel layouts.  Two channels, every RawDataIndex variant, the
\* new-object-list and raw-data flags; the offsets of the repository's tests.
Paths == {"group/ch1", "group/ch2"}

LayoutSegments ==
    SegmentMetaDatas(
        ToCs({TRUE}, BOOLEAN, BOOLEAN, {FALSE}, {FALSE}),
        {U64(500)}, {U64(20)},
        ListsLeft(ObjectMetaDatas(Paths, {<<>>}, RawDataIndexes)))

Next ==
    /\ Accepting(MaxSegments)
    /\ \E segment \in LayoutSegments : AddSegment(segment)

Spec == Init /\ [][Next]_vars

\* SpecOffsets: the u64 arithmetic.  One channel; the offsets of the tests,
\* a raw_data_offset beyond next_segment_offset, and the marker of an
\* unterminated segment as next_segment_offset.
UNTERMINATED == U64_MAX

OffsetSegments ==
    SegmentMetaDatas(
        ToCs({TRUE}, {TRUE}, BOOLEAN, {FALSE}, {FALSE}),
        {U64(20), U64(500), UNTERMINATED}, {U64(0), U64(20), U64(100)},
        {<<>>} \cup ListsOf(ObjectMetaDatas({"group/ch1"}, {<<>>},
                                            {IndexRawData(DoubleFloat1000)}), 1))

NextOffsets ==
    /\ Accepting(MaxSegments)
    /\ \E segment \in OffsetSegments : AddSegment(segment)

SpecOffsets == Init /\ [][NextOffsets]_vars

\* SpecProperties: the properties.  Two objects, with and without data, and
\* property lists that set, overwrite and extend the properties.
PropertyLists ==
    {<<<<"Prop", -51>>>>,
     <<<<"Prop", -52>>, <<"Prop1", -1>>>>}

PropertySegments ==
    SegmentMetaDatas(
        ToCs({TRUE}, BOOLEAN, BOOLEAN, {FALSE}, {FALSE}),
        {U64(500)}, {U64(20)},
        ListsLeft(ObjectMetaDatas(Paths, PropertyLists,
                                  {IndexNone, IndexRawData(DoubleFloat1000)})))

NextProperties ==
    /\ Accepting(MaxSegments)
    /\ \E segment \in PropertySegments : AddSegment(segment)

SpecProperties == Init /\ [][NextProperties]_vars

\* SpecIndex: a scanner that is turned into an Index at some point, which
\* two readers then query.  Segments with raw data list a channel and an
\* object without data, both with properties; the queries name the channel,
\* and an object, a property and a block that the Index lacks.
IndexObjects ==
    {[path |-> "group/ch1", properties |-> <<<<"Prop", -51>>>>,
      raw_data_index |-> IndexRawData(DoubleFloat1000)],
     [path |-> "group", properties |-> <<<<"Prop", -52>>, <<"Prop1", -1>>>>,
      raw_data_index |-> IndexNone]}

IndexSegments ==
    SegmentMetaDatas(
        ToCs({TRUE}, {FALSE}, {TRUE}, {FALSE}, {FALSE}),
        {U64(500)}, {U64(20)},
        ListsLeft(IndexObjects))

IndexQueries ==
    Queries({"group", "group/ch1", "group/ch3"}, {"Prop", "Prop1"}, 0..1)

NextIndex ==
    \/ Accepting(MaxSegments)
           /\ \E segment \in IndexSegments : AddSegment(segment)
    \/ IntoIndex
    \/ \E reader \in Readers, query \in IndexQueries : Query(reader, query)

SpecIndex == Init /\ [][NextIndex]_vars

\* SpecMerge: the merging of properties, in segments of meta data alone
\* (ToC 0x2).  Two objects, every kind of RawDataIndex without and with a
\* format, and property lists that set, overwrite and extend the
\* properties, two of them with no name in common.
MergeLists ==
    {<<<<"Prop", -51>>>>,
     <<<<"Prop", -52>>, <<"Prop1", -1>>>>,
     <<<<"Prop1", -2>>>>}

MergeSegments ==
    SegmentMetaDatas(
        ToCs({TRUE}, {FALSE}, {FALSE}, {FALSE}, {FALSE}),
        {U64(500)}, {U64(20)},
        ListsLeft(ObjectMetaDatas(Paths, MergeLists,
                                  {IndexNone, IndexMatchPrevious,
                                   IndexRawData(DoubleFloat1000)})))

NextMerge ==
    /\ Accepting(MaxSegments)
    /\ \E segment \in MergeSegments : AddSegment(segment)

SpecMerge == Init /\ [][NextMerge]_vars

\* SpecRelist: runs of three segments, long enough to list the channels
\* anew between two blocks.  Each channel has one format; a segment without
\* meta data lists no object and holds raw data (ToC 0x8).
RelistObjects ==
    {[path |-> "group/ch1", properties |-> <<>>,
      raw_data_index |-> IndexRawData(DoubleFloat1000)],
     [path |-> "group/ch2", properties |-> <<>>,
      raw_data_index |-> IndexRawData(I32x500)]}

RelistSegments ==
    SegmentMetaDatas(
        ToCs({TRUE}, BOOLEAN, BOOLEAN, {FALSE}, {FALSE}),
        {U64(500)}, {U64(20)},
        ListsWithin(RelistObjects, MaxRelistEntries))
    \cup
    SegmentMetaDatas(
        ToCs({FALSE}, {FALSE}, {TRUE}, {FALSE}, {FALSE}),
        {U64(500)}, {U64(20)}, {<<>>})

NextRelist ==
    /\ Accepting(MaxRelistSegments)
    /\ \E segment \in RelistSegments :
           AddSegmentWithin(segment, MaxRelistSegments, MaxRelistEntries)

SpecRelist == Init /\ [][NextRelist]_vars

\* SpecNone: entries without a raw data index.  Two channels, each listed
\* with None or with one RawData format; the new-object-list and raw-data
\* flags.
NoneSegments ==
    SegmentMetaDatas(
        ToCs({TRUE}, BOOLEAN, BOOLEAN, {FALSE}, {FALSE}),
        {U64(500)}, {U64(20)},
        ListsLeft(ObjectMetaDatas(Paths, {<<>>},
                                  {IndexNone, IndexRawData(DoubleFloat1000)})))

NextNone ==
    /\ Accepting(MaxSegments)
    /\ \E segment \in NoneSegments : AddSegment(segment)

SpecNone == Init /\ [][NextNone]_vars

\* SpecToC: the layout and the byte order.  Segments with raw data and every
\* setting of the interleaved and big-endian flags; two channels of
\* different formats, listed anew or not.
ToCSegments ==
    SegmentMetaDatas(
        ToCs({TRUE}, BOOLEAN, {TRUE}, BOOLEAN, BOOLEAN),
        {U64(500)}, {U64(20)},
        ListsLeft(RelistObjects))

NextToC ==
    /\ Accepting(MaxSegments)
    /\ \E segment \in ToCSegments : AddSegment(segment)

SpecToC == Init /\ [][NextToC]_vars

-----------------------------------------------------------------------------
(* TdmsStorageType (src/data_types.rs).                                    *)

\* DataType
DataTypes ==
    {"Void", "I8", "I16", "I32", "I64", "U8", "U16", "U32", "U64",
     "SingleFloat", "DoubleFloat", "ExtendedFloat", "SingleFloatWithUnit",
     "DoubleFloatWithUnit", "ExtendedFloatWithUnit", "TdmsString", "Boolean",
     "TimeStamp", "FixedPoint", "ComplexSingleFloat", "ComplexDoubleFloat",
     "DAQmxRawData"}

\* the types that implement TdmsStorageType
StorageTypes == {"u8", "i32", "u32", "u64", "f64", "f32", "String"}

\* TdmsStorageType::NATURAL_TYPE
NATURAL_TYPE(T) ==
    CASE T = "u8"     -> "U8"
      [] T = "i32"    -> "I32"
      [] T = "u32"    -> "U32"
      [] T = "u64"    -> "U64"
      [] T = "f64"    -> "DoubleFloat"
      [] T = "f32"    -> "SingleFloat"
      [] T = "String" -> "TdmsString"

\* TdmsStorageType::SUPPORTED_TYPES
SUPPORTED_TYPES(T) ==
    CASE T = "u8"     -> {"U8"}
      [] T = "i32"    -> {"I32"}
      [] T = "u32"    -> {"U32"}
      [] T = "u64"    -> {"U64"}
      [] T = "f64"    -> {"DoubleFloat", "DoubleFloatWithUnit"}
      [] T = "f32"    -> {"SingleFloat", "SingleFloatWithUnit"}
      [] T = "String" -> {"TdmsString"}

\* a check that knows the natural type only
supports_natural_type(T, data_type) == data_type = NATURAL_TYPE(T)

\* TdmsStorageType::supports_data_type
supports_data_type(T, data_type) == data_type \in SUPPORTED_TYPES(T)

\* std::mem::size_of::<T>() of the numeric types
size_of(T) ==
    CASE T = "u8"  -> 1
      [] T = "i32" -> 4
      [] T = "u32" -> 4
      [] T = "u64" -> 8
      [] T = "f64" -> 8
      [] T = "f32" -> 4

-----------------------------------------------------------------------------
(* The values of the storage types and their bytes.                        *)
(*   u8, i32      an integer                                               *)
(*   u32, f32     the 32 bits as two 16-bit limbs, least significant first *)
(*   u64, f64     the 64 bits as four 16-bit limbs                         *)
(*   String       [chars, tail]: the code points chars, followed by tail   *)
(*                runs of 2^32 letters A; a String of a 64-bit target      *)
(*                holds up to isize::MAX bytes                             *)
(* A byte stream is [bytes, tail] alike: the bytes, followed by tail runs  *)
(* of 2^32 bytes 0x41.                                                     *)

Reverse(s) == [i \in 1..Len(s) |-> s[Len(s) + 1 - i]]

RECURSIVE Concat(_)
Concat(seqs) == IF seqs = <<>> THEN <<>> ELSE Head(seqs) \o Concat(Tail(seqs))

LetterA == 65

UnexpectedEof == [error |-> "IoError", kind |-> "UnexpectedEof"]
InvalidUtf8 == [error |-> "InvalidUtf8"]

\* <$type>::to_le_bytes
to_le_bytes(T, v) ==
    CASE T = "u8"  -> <<v>>
      [] T = "i32" -> <<v % 256, (v \div 256) % 256, (v \div 65536) % 256,
                        (v \div 16777216) % 256>>
      [] OTHER     -> Concat([i \in 1..Len(v) |-> <<v[i] % 256, v[i] \div 256>>])

\* <$type>::to_be_bytes
to_be_bytes(T, v) == Reverse(to_le_bytes(T, v))

\* <$type>::from_le_bytes
from_le_bytes(T, buf) ==
    CASE T = "u8"  -> buf[1]
      [] T = "i32" -> buf[1] + 256 * buf[2] + 65536 * buf[3]
                          + 16777216 * (IF buf[4] >= 128 THEN buf[4] - 256
                                        ELSE buf[4])
      [] OTHER     -> [i \in 1..(Len(buf) \div 2) |->
                          buf[2 * i - 1] + 256 * buf[2 * i]]

\* <$type>::from_be_bytes
from_be_bytes(T, buf) == from_le_bytes(T, Reverse(buf))

\* the UTF-8 bytes of a code point
utf8_char(c) ==
    IF c < 128 THEN <<c>>
    ELSE IF c < 2048 THEN <<192 + c \div 64, 128 + (c % 64)>>
    ELSE IF c < 65536
    THEN <<224 + c \div 4096, 128 + ((c \div 64) % 64), 128 + (c % 64)>>
    ELSE <<240 + c \div 262144, 128 + ((c \div 4096) % 64),
           128 + ((c \div 64) % 64), 128 + (c % 64)>>

\* str::as_bytes of the code points
as_bytes(chars) == Concat([i \in 1..Len(chars) |-> utf8_char(chars[i])])

\* str::len: the bytes of the String, a usize of 64 bits
String_len(v) ==
    LET n == Len(as_bytes(v.chars)) IN <<n % Limb, n \div Limb, v.tail, 0>>

\* self.len() as u32: the low 32 bits
as_u32(n) == <<n[1], n[2]>>

\* the bytes a lead byte announces, 0 when it is no lead byte
utf8_width(b) ==
    IF b < 128 THEN 1
    ELSE IF b >= 194 /\ b <= 223 THEN 2
    ELSE IF b >= 224 /\ b <= 239 THEN 3
    ELSE IF b >= 240 /\ b <= 244 THEN 4
    ELSE 0

\* the code point of the n bytes from buf[1], -1 when they are ill formed
utf8_decode(buf, n) ==
    LET continued == \A k \in 2..n : buf[k] >= 128 /\ buf[k] <= 191
        c == CASE n = 1 -> buf[1]
               [] n = 2 -> (buf[1] - 192) * 64 + (buf[2] - 128)
               [] n = 3 -> (buf[1] - 224) * 4096 + (buf[2] - 128) * 64
                               + (buf[3] - 128)
               [] n = 4 -> (buf[1] - 240) * 262144 + (buf[2] - 128) * 4096
                               + (buf[3] - 128) * 64 + (buf[4] - 128)
        least == CASE n = 1 -> 0 [] n = 2 -> 128 [] n = 3 -> 2048
                   [] n = 4 -> 65536
    IN  IF n = 0 \/ Len(buf) < n THEN -1
        ELSE IF ~continued THEN -1
        ELSE IF c < least \/ c > 1114111 \/ (c >= 55296 /\ c <= 57343) THEN -1
        ELSE c

\* String::from_utf8: the code points, or the error of ill-formed bytes
RECURSIVE from_utf8(_)
from_utf8(buf) ==
    IF buf = <<>> THEN Ok(<<>>)
    ELSE LET n == utf8_width(buf[1])
             c == utf8_decode(buf, n)
             rest == from_utf8(SubSeq(buf, n + 1, Len(buf)))
         IN  IF c = -1 THEN Err(InvalidUtf8)
             ELSE IF "err" \in DOMAIN rest THEN rest
             ELSE Ok(<<c>> \o rest.ok)

\* Read::read_exact of n bytes at position at (from 0) of a stream:
\* [ok: the bytes] or the error of a stream that ends before
read_exact(stream, at, n) ==
    IF at + n > Len(stream.bytes) /\ stream.tail = 0
    THEN Err(UnexpectedEof)
    ELSE Ok([k \in 1..n |-> IF at + k <= Len(stream.bytes)
                            THEN stream.bytes[at + k] ELSE LetterA])

\* numeric_type!: read_le and read_be at position at
numeric_read(T, order, stream, at) ==
    LET buf == read_exact(stream, at, size_of(T))
    IN  IF "err" \in DOMAIN buf THEN buf
        ELSE Ok(IF order = "le" THEN from_le_bytes(T, buf.ok)
                ELSE from_be_bytes(T, buf.ok))

\* numeric_type!: write_le and write_be to an empty sink
numeric_write(T, order, v) ==
    [bytes |-> IF order = "le" THEN to_le_bytes(T, v) ELSE to_be_bytes(T, v),
     tail  |-> 0]

\* read_string_with_length, after the 4 bytes of the length
read_string_with_length(stream, length) ==
    LET buffer == read_exact(stream, 4, length[1] + Limb * length[2])
        value == from_utf8(buffer.ok)
    IN  IF "err" \in DOMAIN buffer THEN buffer
        ELSE IF "err" \in DOMAIN value THEN value
        ELSE Ok([chars |-> value.ok, tail |-> 0])

\* String::read_le and String::read_be
String_read(order, stream) ==
    LET length == numeric_read("u32", order, stream, 0)
    IN  IF "err" \in DOMAIN length THEN length
        ELSE read_string_with_length(stream, length.ok)

\* String::write_le and String::write_be to an empty sink
String_write(order, v) ==
    [bytes |-> numeric_write("u32", order, as_u32(String_len(v))).bytes
                   \o as_bytes(v.chars),
     tail  |-> v.tail]

\* TdmsStorageType::read_le and read_be
TdmsStorageType_read(T, order, stream) ==
    IF T = "String" THEN String_read(order, stream)
    ELSE numeric_read(T, order, stream, 0)

\* TdmsStorageType::write_le and write_be
TdmsStorageType_write(T, order, v) ==
    IF T = "String" THEN String_write(order, v) ELSE numeric_write(T, order, v)

\* a size that forgets the length prefix of a String
size_without_prefix(T, v) ==
    IF T = "String" THEN String_len(v) ELSE U64(size_of(T))

\* TdmsStorageType::size, a usize
TdmsStorageType_size(T, v) ==
    IF T = "String" THEN u64_add(String_len(v), U64(4)).value
    ELSE U64(size_of(T))

\* the bytes of a stream, counted as a u64
stream_len(stream) ==
    <<Len(stream.bytes) % Limb, Len(stream.bytes) \div Limb, stream.tail, 0>>

-----------------------------------------------------------------------------
(* TdmsFileWriter (src/file/file_writer.rs).  The writer is                *)
(* [index, big_endian]: the live index it borrows, which is the scanner,   *)
(* and the byte order of its TdmsWriter.  What write_channels calls        *)
(* outside file_writer.rs follows the description of the writer: its       *)
(* steps 1 to 6.                                                           *)

DataLayouts == {"Interleaved", "Contigious"}

IoError == [error |-> "IoError"]
SliceError == [error |-> "SliceError"]

\* MultiChannelSlice::from_slice: the values are shared out evenly among the
\* channels, which fails when they cannot be
MultiChannelSlice_from_slice(T, values_len, channel_count) ==
    IF channel_count = 0 \/ values_len % channel_count # 0
    THEN Err(SliceError)
    ELSE Ok([storage_type  |-> T,
             values_len    |-> values_len,
             channel_count |-> channel_count])

\* MultiChannelSlice::data_structure: one RawDataMeta per channel, of the
\* natural type of T and len(values) / n_channels values
data_structure(raw_data) ==
    [i \in 1..raw_data.channel_count |->
        [data_type        |-> NATURAL_TYPE(raw_data.storage_type),
         number_of_values |-> raw_data.values_len \div raw_data.channel_count,
         total_size_bytes |-> None]]

\* Index::check_write_values: (matches_live, the channels with the
\* RawDataIndex to write).  matches_live: the candidate is the active list
\* exactly, in order, with identical RawDataMeta.
check_write_values(self, channels) ==
    [matches_live |->
         /\ Len(channels) = Len(self.active_objects)
         /\ \A i \in 1..Len(channels) :
                /\ self.active_objects[i] = channels[i].path
                /\ channels[i].path \in DOMAIN self.object_registry
                /\ self.object_registry[channels[i].path].latest_data_format
                       = Some(channels[i].format),
     channels |->
         [i \in 1..Len(channels) |->
             [path      |-> channels[i].path,
              raw_index |-> IndexRawData(channels[i].format.RawData)]]]

\* ToC::default
ToC_default ==
    [contains_meta_data       |-> FALSE,
     contains_new_object_list |-> FALSE,
     contains_raw_data        |-> FALSE,
     data_is_interleaved      |-> FALSE,
     big_endian               |-> FALSE]

\* the bytes of a meta data block: the object count, then per object the
\* length-prefixed path (9 bytes here), the RawData index of a fixed-width
\* type (20 bytes) and the property count
meta_data_size(meta) ==
    IF meta = None THEN 0 ELSE 4 + (4 + 9 + 20 + 4) * Len(meta[1].objects)

\* TdmsWriter::write_segment: the Segment written, or the error of the sink
\* (io_ok = FALSE).  The ToC says what the segment holds and the byte order
\* of the writer; the offsets count from the end of the lead in.
write_segment(big_endian, toc, meta, raw_data, io_ok) ==
    LET raw_size == IF raw_data = None THEN 0
                    ELSE raw_data[1].values_len
                             * size_of(raw_data[1].storage_type)
    IN  IF ~io_ok THEN Err(IoError)
        ELSE Ok([toc |-> [toc EXCEPT !.contains_meta_data = meta # None,
                                     !.contains_raw_data = raw_data # None,
                                     !.big_endian = big_endian],
                 next_segment_offset |-> U64(meta_data_size(meta) + raw_size),
                 raw_data_offset     |-> U64(meta_data_size(meta)),
                 meta_data           |-> meta])

\* the SegmentMetaData of a Segment: no meta data lists no objects
segment_meta_data(segment) ==
    [toc                 |-> segment.toc,
     next_segment_offset |-> segment.next_segment_offset,
     raw_data_offset     |-> segment.raw_data_offset,
     objects             |-> IF segment.meta_data = None THEN <<>>
                             ELSE segment.meta_data[1].objects]

\* Index::add_segment: the scanner of the live index takes the segment
Index_add_segment(self, segment, checks) ==
    add_segment_to_index(self, segment_meta_data(segment), checks)

\* what write_channels leaves: the index, the Result, and for the claims
\* matches_live and the Segment written (None where it did not get there)
WriteOutcome(index, result, matches_live, segment) ==
    [index        |-> index,
     result       |-> result,
     matches_live |-> matches_live,
     segment      |-> segment]

\* meta data written whether or not the channels match the live ones
MetaData_of_write_always(matches_live, channels) ==
    Some([objects |->
             [i \in 1..Len(channels) |->
                 [path           |-> channels[i].path,
                  properties     |-> <<>>,
                  raw_data_index |-> channels[i].raw_index]]])

\* the meta of write_channels: none when the channels match the live ones,
\* else every channel with its RawData index and no properties
MetaData_of_write(matches_live, channels) ==
    IF matches_live THEN None
    ELSE Some([objects |->
                  [i \in 1..Len(channels) |->
                      [path           |-> channels[i].path,
                       properties     |-> <<>>,
                       raw_data_index |-> channels[i].raw_index]]])

\* a ToC that never announces a new object list
ToC_of_write_keeping_list(matches_live, layout) ==
    [ToC_default EXCEPT !.data_is_interleaved = (layout = "Interleaved")]

\* the toc of write_channels
ToC_of_write(matches_live, layout) ==
    [ToC_default EXCEPT !.contains_new_object_list = ~matches_live,
                        !.data_is_interleaved = (layout = "Interleaved")]

\* a writer that tells its index of the segment before the sink took it
write_checked_adding_first(self, checked, raw_data, layout, io_ok, checks) ==
    LET toc == [ToC_default EXCEPT
                   !.contains_new_object_list = ~checked.matches_live,
                   !.data_is_interleaved = (layout = "Interleaved")]
        meta == IF checked.matches_live THEN None
                ELSE Some([objects |->
                              [i \in 1..Len(checked.channels) |->
                                  [path           |-> checked.channels[i].path,
                                   properties     |-> <<>>,
                                   raw_data_index |->
                                       checked.channels[i].raw_index]]])
        segment == write_segment(self.big_endian, toc, meta, Some(raw_data),
                                 TRUE).ok
        added == Index_add_segment(self.index, segment, checks)
    IN  IF io_ok
        THEN WriteOutcome(added, Ok("unit"), Some(checked.matches_live),
                          Some(segment))
        ELSE WriteOutcome(added, Err(IoError), Some(checked.matches_live),
                          None)

\* a writer that does not tell its index of the segment
index_written_forgotten(self, written, matches_live, checks) ==
    IF "err" \in DOMAIN written
    THEN WriteOutcome(self.index, written, Some(matches_live), None)
    ELSE WriteOutcome(self.index, Ok("unit"), Some(matches_live),
                      Some(written.ok))

\* the end of write_channels: the error of write_segment returns early,
\* else the index takes the segment
index_written(self, written, matches_live, checks) ==
    IF "err" \in DOMAIN written
    THEN WriteOutcome(self.index, written, Some(matches_live), None)
    ELSE WriteOutcome(Index_add_segment(self.index, written.ok, checks),
                      Ok("unit"), Some(matches_live), Some(written.ok))

\* the rest of write_channels once the candidate is checked
write_checked(self, checked, raw_data, layout, io_ok, checks) ==
    index_written(
        self,
        write_segment(self.big_endian,
                      ToC_of_write(checked.matches_live, layout),
                      MetaData_of_write(checked.matches_live,
                                        checked.channels),
                      Some(raw_data), io_ok),
        checked.matches_live, checks)

\* a writer whose candidate is of doubles whatever the element type
write_channels_of_doubles(self, channels, T, values_len, layout, io_ok, checks) ==
    LET sliced == MultiChannelSlice_from_slice(T, values_len, Len(channels))
        data_structures == data_structure([sliced.ok EXCEPT
                                              !.storage_type = "f64"])
        candidate == [i \in 1..Len(channels) |->
                         [path   |-> channels[i],
                          format |-> [RawData |-> data_structures[i]]]]
    IN  IF "err" \in DOMAIN sliced
        THEN WriteOutcome(self.index, sliced, None, None)
        ELSE write_checked(self, check_write_values(self.index, candidate),
                           sliced.ok, layout, io_ok, checks)

\* TdmsFileWriter::write_channels
write_channels(self, channels, T, values_len, layout, io_ok, checks) ==
    LET sliced == MultiChannelSlice_from_slice(T, values_len, Len(channels))
        data_structures == data_structure(sliced.ok)
        candidate == [i \in 1..Len(channels) |->
                         [path   |-> channels[i],
                          format |-> [RawData |-> data_structures[i]]]]
    IN  IF "err" \in DOMAIN sliced
        THEN WriteOutcome(self.index, sliced, None, None)
        ELSE write_checked(self, check_write_values(self.index, candidate),
                           sliced.ok, layout, io_ok, checks)

-----------------------------------------------------------------------------
(* Runs of a writer.                                                       *)

\* write_channels calls in one run
MaxWrites == 2

\* TdmsFileWriter::new over a fresh index; calls is the history of the run
TdmsFileWriter_new(big_endian) == [big_endian |-> big_endian, calls |-> <<>>]

InitWriter ==
    /\ InitScanner
    /\ writer \in {TdmsFileWriter_new(big_endian) : big_endian \in BOOLEAN}
    /\ codec = None
    /\ block_read = None

\* one call of write_channels with values_len values of T; io_ok says
\* whether the sink takes the bytes
WriteChannelsWithin(max_writes, channels, T, values_len, layout, io_ok) ==
    /\ pc = "scanning"
    /\ Len(writer.calls) < max_writes
    /\ \E out \in {write_channels([index      |-> Scanner,
                                    big_endian |-> writer.big_endian],
                                   channels, T, values_len, layout, io_ok,
                                   overflow_checks)} :
           /\ active_objects' = out.index.active_objects
           /\ object_registry' = out.index.object_registry
           /\ data_blocks' = out.index.data_blocks
           /\ next_segment_start' = out.index.next_segment_start
           /\ panic' = out.index.panic
           /\ pc' = IF out.index.panic = NoPanic THEN "scanning"
                    ELSE "panicked"
           /\ segments' = IF out.segment = None THEN segments
                          ELSE Append(segments,
                                      segment_meta_data(out.segment[1]))
           /\ writer' = [writer EXCEPT !.calls =
                             Append(@, [channels     |-> channels,
                                        storage_type |-> T,
                                        values_len   |-> values_len,
                                        layout       |-> layout,
                                        result       |-> out.result,
                                        matches_live |-> out.matches_live,
                                        segment      |-> out.segment])]
    /\ before' = Scanner
    /\ UNCHANGED <<overflow_checks, readers, codec, block_read>>

WriteChannels(channels, T, values_len, layout, io_ok) ==
    WriteChannelsWithin(MaxWrites, channels, T, values_len, layout, io_ok)

\* SpecWriter: one or two channels in either order, doubles or i32, two or
\* three values a call (three do not share out among two channels), both
\* layouts, and a sink that takes the bytes or fails.  The channels of one
\* call are distinct.
WriterChannels ==
    {<<"group/ch1">>, <<"group/ch1", "group/ch2">>,
     <<"group/ch2", "group/ch1">>}

WriterTypes == {"f64", "i32"}

WriterValues == {2, 3}

NextWriter ==
    \E channels \in WriterChannels, T \in WriterTypes,
       values_len \in WriterValues, layout \in DataLayouts,
       io_ok \in BOOLEAN :
        WriteChannels(channels, T, values_len, layout, io_ok)

SpecWriter == InitWriter /\ [][NextWriter]_vars

\* SpecWriterRepeats: as SpecWriter, with a call that names one channel
\* twice among the channel lists.
RepeatedChannels ==
    {<<"group/ch1">>, <<"group/ch1", "group/ch1">>,
     <<"group/ch1", "group/ch2">>}

NextWriterRepeats ==
    \E channels \in RepeatedChannels, T \in WriterTypes,
       values_len \in WriterValues, layout \in DataLayouts,
       io_ok \in BOOLEAN :
        WriteChannels(channels, T, values_len, layout, io_ok)

SpecWriterRepeats == InitWriter /\ [][NextWriterRepeats]_vars

\* write_channels calls in one run of SpecWriterErrors
MaxWritesWithErrors == 3

\* SpecWriterErrors: calls that fail between calls that write.  One channel
\* or two, doubles or i32, two or three values a call (three do not share
\* out among two channels), contiguous, and a sink that takes the bytes or
\* fails.
ErrorChannels == {<<"group/ch1">>, <<"group/ch1", "group/ch2">>}

NextWriterErrors ==
    \E channels \in ErrorChannels, T \in WriterTypes,
       values_len \in WriterValues, io_ok \in BOOLEAN :
        WriteChannelsWithin(MaxWritesWithErrors, channels, T, values_len,
                            "Contigious", io_ok)

SpecWriterErrors == InitWriter /\ [][NextWriterErrors]_vars

-----------------------------------------------------------------------------
(* Runs of the codec: one value written to an empty sink and read back.    *)

\* code points of a String
MaxStringLen == 2

\* runs of 2^32 letters that end a String
MaxStringTail == 1

ByteOrders == {"le", "be"}

\* A, e acute, the euro sign and a face: 1, 2, 3 and 4 bytes of UTF-8
Chars == {65, 233, 8364, 128512}

Strings ==
    {[chars |-> chars, tail |-> tail] :
        chars \in UNION {[1..n -> Chars] : n \in 0..MaxStringLen},
        tail \in 0..MaxStringTail}

\* the values written: the ends of each range, the values of the tests
\* (-12345, 12345, 1234.1245), and bit patterns of 1.0, -0.0 and a NaN
Values(T) ==
    CASE T = "u8"     -> {0, 1, 127, 128, 255}
      [] T = "i32"    -> {-2147483647 - 1, -12345, -1, 0, 12345, 2147483647}
      [] T = "u32"    -> {<<0, 0>>, <<12345, 0>>, <<0, 32768>>,
                          <<65535, 65535>>}
      [] T = "u64"    -> {U64(0), <<1, 2, 3, 4>>, U64_MAX}
      [] T = "f32"    -> {<<0, 16256>>, <<0, 32768>>, <<0, 32704>>}
      [] T = "f64"    -> {<<37224, 31981, 18559, 16531>>, <<0, 0, 0, 32768>>,
                          <<0, 0, 0, 32760>>}
      [] T = "String" -> Strings

\* v.write_le(sink) or v.write_be(sink), and v.size()
WriteValue(T, order, v) ==
    /\ codec = None
    /\ codec' = [op           |-> "write",
                 storage_type |-> T,
                 order        |-> order,
                 value        |-> v,
                 stream       |-> TdmsStorageType_write(T, order, v),
                 size         |-> TdmsStorageType_size(T, v)]
    /\ UNCHANGED <<active_objects, object_registry, data_blocks,
                   next_segment_start, pc, panic, overflow_checks, segments,
                   before, readers, writer, block_read>>

\* T::read_le(source) or T::read_be(source) of what was written, in the
\* byte order of the write
ReadValue ==
    /\ codec # None
    /\ codec.op = "write"
    /\ codec' = [op           |-> "read",
                 storage_type |-> codec.storage_type,
                 order        |-> codec.order,
                 value        |-> codec.value,
                 stream       |-> codec.stream,
                 size         |-> codec.size,
                 read         |-> TdmsStorageType_read(codec.storage_type,
                                                       codec.order,
                                                       codec.stream)]
    /\ UNCHANGED <<active_objects, object_registry, data_blocks,
                   next_segment_start, pc, panic, overflow_checks, segments,
                   before, readers, writer, block_read>>

\* T::supports_data_type(data_type)
SupportsDataType(T, data_type) ==
    /\ codec = None
    /\ codec' = [op           |-> "supports_data_type",
                 storage_type |-> T,
                 data_type    |-> data_type,
                 result       |-> supports_data_type(T, data_type)]
    /\ UNCHANGED <<active_objects, object_registry, data_blocks,
                   next_segment_start, pc, panic, overflow_checks, segments,
                   before, readers, writer, block_read>>

NextCodec ==
    \/ \E T \in StorageTypes, order \in ByteOrders :
           \E v \in Values(T) : WriteValue(T, order, v)
    \/ ReadValue
    \/ \E T \in StorageTypes, data_type \in DataTypes :
           SupportsDataType(T, data_type)

SpecCodec == Init /\ [][NextCodec]_vars

-----------------------------------------------------------------------------
(* DataBlock::read (src/raw_data/mod.rs).  The planner and the two readers *)
(* that read dispatches to follow their description: the plan says for     *)
(* every channel of the block whether to skip its bytes or to read         *)
(* min(number_of_values, len(output)) values of it; the readers follow the *)
(* plan and return the least count placed into an output.                  *)

Min(a, b) == IF a <= b THEN a ELSE b

\* a position of the source that fits an index of the model
u64_index(position) == position[1] + Limb * position[2]

\* the bytes of one value of a channel of fixed width
element_size(meta) ==
    CASE meta.data_type = "U8"          -> 1
      [] meta.data_type = "I32"         -> 4
      [] meta.data_type = "U32"         -> 4
      [] meta.data_type = "U64"         -> 8
      [] meta.data_type = "SingleFloat" -> 4
      [] meta.data_type = "DoubleFloat" -> 8

\* the bytes of the channels before channel j (from 1) of a contiguous block
RECURSIVE channel_offset(_, _)
channel_offset(channels, j) ==
    IF j = 1 THEN 0
    ELSE channel_offset(channels, j - 1)
             + channels[j - 1].number_of_values * element_size(channels[j - 1])

\* the bytes of one record of the channels before channel j
RECURSIVE offset_within_record(_, _)
offset_within_record(channels, j) ==
    IF j = 1 THEN 0
    ELSE offset_within_record(channels, j - 1) + element_size(channels[j - 1])

\* the least number_of_values of the channels
RECURSIVE record_count(_)
record_count(channels) ==
    IF Len(channels) = 1 THEN channels[1].number_of_values
    ELSE Min(channels[Len(channels)].number_of_values,
             record_count(SubSeq(channels, 1, Len(channels) - 1)))

\* RecordStructure::build_record_plan: per channel of the block, where it
\* lies and what to do with it.  channels_to_read is a sequence of
\* [channel_index, output]; request is the position in it, 0 to skip.
build_record_plan(channels, channels_to_read) ==
    [entries |->
         [j \in 1..Len(channels) |->
             LET wanted == {r \in 1..Len(channels_to_read) :
                               channels_to_read[r].channel_index = j - 1}
                 request == IF wanted = {} THEN 0
                            ELSE CHOOSE r \in wanted : \A q \in wanted : r <= q
             IN  [offset_from_block_start |-> channel_offset(channels, j),
                  offset_within_record |-> offset_within_record(channels, j),
                  element_size |-> element_size(channels[j]),
                  number_of_values |-> channels[j].number_of_values,
                  request |-> request,
                  values  |-> IF request = 0 THEN 0
                              ELSE Min(channels[j].number_of_values,
                                       Len(channels_to_read[request].output))]],
     stride |-> offset_within_record(channels, Len(channels) + 1),
     record_count |-> record_count(channels)]

\* where value k (from 1) of the channel of a plan entry lies in the source
value_position(layout, start, plan, entry, k) ==
    IF layout = "Contigious"
    THEN u64_index(start) + entry.offset_from_block_start
             + (k - 1) * entry.element_size
    ELSE u64_index(start) + (k - 1) * plan.stride
             + entry.offset_within_record

\* the outputs once every read entry of the plan has placed its values
placed_outputs(T, order, source, layout, start, plan, channels_to_read) ==
    [r \in 1..Len(channels_to_read) |->
        LET served == {j \in 1..Len(plan.entries) : plan.entries[j].request = r}
            entry == plan.entries[CHOOSE j \in served : TRUE]
        IN  IF served = {} THEN channels_to_read[r].output
            ELSE [k \in 1..Len(channels_to_read[r].output) |->
                     IF k <= entry.values
                     THEN numeric_read(T, order, source,
                                       value_position(layout, start, plan,
                                                      entry, k)).ok
                     ELSE channels_to_read[r].output[k]]]

\* the least count placed into an output
least_placed(plan) ==
    LET counts == {plan.entries[j].values :
                      j \in {i \in 1..Len(plan.entries) :
                                plan.entries[i].request # 0}}
    IN  CHOOSE n \in counts : \A m \in counts : n <= m

\* MultiChannelContigousReader::new(reader, start, length).read(plan): for
\* every channel in turn seek to start + channel offset, read the values
\* asked for, seek forward over the rest of the channel
MultiChannelContigousReader_read(T, order, source, start, length, plan, channels_to_read) ==
    LET last == plan.entries[Len(plan.entries)]
    IN  [result   |-> Ok(least_placed(plan)),
         outputs  |-> placed_outputs(T, order, source, "Contigious", start,
                                     plan, channels_to_read),
         position |-> u64_add(start,
                              U64(last.offset_from_block_start
                                      + last.number_of_values
                                            * last.element_size)).value]

\* MultiChannelInterleavedReader::new(reader, start, length).read(plan):
\* seek to start, then record by record read the fields asked for and seek
\* over the gaps
MultiChannelInterleavedReader_read(T, order, source, start, length, plan, channels_to_read) ==
    [result   |-> Ok(least_placed(plan)),
     outputs  |-> placed_outputs(T, order, source, "Interleaved", start, plan,
                                 channels_to_read),
     position |-> u64_add(start, U64(plan.record_count * plan.stride)).value]

\* DataBlock::read: [result, outputs, position]
DataBlock_read(self, T, source, channels_to_read) ==
    LET record_plan == build_record_plan(self.channels, channels_to_read)
    IN  CASE self.layout = "Contigious" /\ self.byte_order = "Big" ->
                 MultiChannelContigousReader_read(
                     T, "be", source, self.start, self.length, record_plan,
                     channels_to_read)
          [] self.layout = "Contigious" /\ self.byte_order = "Little" ->
                 MultiChannelContigousReader_read(
                     T, "le", source, self.start, self.length, record_plan,
                     channels_to_read)
          [] self.layout = "Interleaved" /\ self.byte_order = "Big" ->
                 MultiChannelInterleavedReader_read(
                     T, "be", source, self.start, self.length, record_plan,
                     channels_to_read)
          [] self.layout = "Interleaved" /\ self.byte_order = "Little" ->
                 MultiChannelInterleavedReader_read(
                     T, "le", source, self.start, self.length, record_plan,
                     channels_to_read)

\* a read_single that reads the first channel whatever the index
DataBlock_read_single_first(self, T, channel_index, source, output) ==
    DataBlock_read(self, T, source,
                   <<[channel_index |-> 0, output |-> output]>>)

\* DataBlock::read_single
DataBlock_read_single(self, T, channel_index, source, output) ==
    DataBlock_read(self, T, source,
                   <<[channel_index |-> channel_index, output |-> output]>>)

-----------------------------------------------------------------------------
(* Runs of a block reader: one read_single of a block of a file.           *)

\* channels of a block
MaxBlockChannels == 2

\* values of a channel
MaxSamples == 2

\* values that an output holds
MaxOutput == 3

\* what an output holds before the read
Untouched == -1

\* value k (from 1) of channel j (from 1) in the file
SampleValue(T, j, k) ==
    IF T = "u8" THEN 16 * j + k ELSE 1000 * j + k - 12345

\* the bytes of the file: those before the block, the values of the block in
\* its layout and byte order, and the lead in of the segment that follows
SourceOf(block, T) ==
    LET order == IF block.byte_order = "Big" THEN "be" ELSE "le"
        n == Len(block.channels)
        samples == block.channels[1].number_of_values
        value(j, k) == numeric_write(T, order, SampleValue(T, j, k)).bytes
        contiguous ==
            Concat([j \in 1..n |-> Concat([k \in 1..samples |-> value(j, k)])])
        interleaved ==
            Concat([k \in 1..samples |-> Concat([j \in 1..n |-> value(j, k)])])
    IN  [bytes |-> [i \in 1..u64_index(block.start) |-> 0]
                       \o (IF block.layout = "Contigious" THEN contiguous
                           ELSE interleaved)
                       \o [i \in 1..u64_index(LEAD_IN_BYTES) |-> 0],
         tail  |-> 0]

\* the blocks of n channels of samples values of T each, as
\* DataBlock::from_segment makes them of a segment that holds the values
\* once: length is the bytes of the values
Blocks(T) ==
    {[start      |-> start,
      length     |-> U64(n * samples * size_of(T)),
      layout     |-> layout,
      channels   |-> [j \in 1..n |->
                         [data_type        |-> NATURAL_TYPE(T),
                          number_of_values |-> samples,
                          total_size_bytes |-> None]],
      byte_order |-> byte_order] :
        start \in {LEAD_IN_BYTES, U64(100)}, n \in 1..MaxBlockChannels,
        samples \in 0..MaxSamples, layout \in DataLayouts,
        byte_order \in {"Big", "Little"}}

\* block.read_single(channel_index, reader, output) over the file of the
\* block, into an output of output_len values
ReadSingle(block, T, channel_index, output_len) ==
    /\ block_read = None
    /\ LET output == [k \in 1..output_len |-> Untouched]
           read == DataBlock_read_single(block, T, channel_index,
                                         SourceOf(block, T), output)
       IN  block_read' = [block         |-> block,
                          storage_type  |-> T,
                          channel_index |-> channel_index,
                          output_len    |-> output_len,
                          result        |-> read.result,
                          output        |-> read.outputs[1],
                          position      |-> read.position]
    /\ UNCHANGED <<active_objects, object_registry, data_blocks,
                   next_segment_start, pc, panic, overflow_checks, segments,
                   before, readers, writer, codec>>

BlockTypes == {"u8", "i32"}

NextBlockRead ==
    \E T \in BlockTypes, output_len \in 0..MaxOutput :
        \E block \in Blocks(T) :
            \E channel_index \in 0..(Len(block.channels) - 1) :
                ReadSingle(block, T, channel_index, output_len)

SpecBlockRead == Init /\ [][NextBlockRead]_vars

-----------------------------------------------------------------------------
(* What the claims speak of, read off the submitted segments.              *)

LastSegment == segments[Len(segments)]

\* the last operation was an add_segment_to_index call
AddedSegment == segments # <<>> /\ pc # "indexed"

\* ... and that call returned
AddedSegmentOk == AddedSegment /\ pc = "scanning"

HasData(object) == object.raw_data_index.kind # "None"

Listed(segment) == {segment.objects[i].path : i \in 1..Len(segment.objects)}

IsPrefix(s, t) == Len(s) <= Len(t) /\ \A i \in 1..Len(s) : s[i] = t[i]

\* the position of a path in a list without repetitions, 0-based
PositionOf(path, list) == (CHOOSE i \in 1..Len(list) : list[i] = path) - 1

InList(path, list) == \E i \in 1..Len(list) : list[i] = path

\* the object entries of the first n segments, in file order
RECURSIVE EntriesUpTo(_)
EntriesUpTo(n) ==
    IF n = 0 THEN <<>> ELSE EntriesUpTo(n - 1) \o segments[n].objects

\* the RawDataMeta of the last RawData entry for a path among some entries
LastRawData(path, entries) ==
    LET at == {i \in 1..Len(entries) :
                  /\ entries[i].path = path
                  /\ entries[i].raw_data_index.kind = "RawData"}
    IN  IF at = {} THEN None
        ELSE Some(entries[CHOOSE i \in at : \A j \in at : j <= i]
                      .raw_data_index.raw_meta)

\* the segments that carry raw data, among the first n
RawSegments(n) == {k \in 1..n : segments[k].toc.contains_raw_data}

\* the segment that block b (0-based) was appended for
SegmentOfBlock(b) ==
    CHOOSE k \in 1..Len(segments) :
        k \in RawSegments(k) /\ Cardinality(RawSegments(k)) = b + 1

\* the data locations an object had before the last operation
LocationsBefore(path) ==
    IF path \in DOMAIN before.object_registry
    THEN before.object_registry[path].data_locations ELSE <<>>

-----------------------------------------------------------------------------
(* C1  Active list uniqueness: in every state of the scanner no path       *)
(* appears twice in active_objects, also when a segment lists one path     *)
(* twice or lists a path that is already active.                           *)

C1_ActiveListUnique ==
    \A i, j \in 1..Len(active_objects) :
        i # j => active_objects[i] # active_objects[j]

\* a segment listed a data-bearing path twice, or one that was active, and
\* the path is active once
C1_Witness ==
    /\ AddedSegmentOk
    /\ ~LastSegment.toc.contains_new_object_list
    /\ \E i \in 1..Len(LastSegment.objects) :
          /\ HasData(LastSegment.objects[i])
          /\ InList(LastSegment.objects[i].path, active_objects)
          /\ \/ InList(LastSegment.objects[i].path, before.active_objects)
             \/ \E j \in 1..Len(LastSegment.objects) :
                   /\ j # i
                   /\ HasData(LastSegment.objects[j])
                   /\ LastSegment.objects[j].path = LastSegment.objects[i].path

(* C2  DataLocation consistency: every DataLocation{b, i} of every object  *)
(* names an existing block b and an existing channel i of it, and that     *)
(* channel is the RawDataMeta the object had as its latest format when     *)
(* block b was appended: the one of the last RawData entry for the object  *)
(* up to the segment of the block.                                         *)

C2_LocationsConsistent ==
    \A path \in DOMAIN object_registry :
        \A n \in 1..Len(object_registry[path].data_locations) :
            LET location == object_registry[path].data_locations[n]
                b == location.data_block
                i == location.channel_index
            IN  /\ b \in 0..(Len(data_blocks) - 1)
                /\ i \in 0..(Len(data_blocks[b + 1].channels) - 1)
                /\ Some(data_blocks[b + 1].channels[i + 1])
                       = LastRawData(path, EntriesUpTo(SegmentOfBlock(b)))

\* an object has two locations whose blocks describe it differently
C2_Witness ==
    \E path \in DOMAIN object_registry :
        LET locations == object_registry[path].data_locations
        IN  /\ Len(locations) = 2
            /\ data_blocks[locations[1].data_block + 1]
                       .channels[locations[1].channel_index + 1]
                   # data_blocks[locations[2].data_block + 1]
                         .channels[locations[2].channel_index + 1]

(* C3  Whenever a data block is appended every active object has a         *)
(* latest_data_format, so the lookup "Getting data format from object      *)
(* that never had one" never fails, whatever RawDataIndex variants the     *)
(* segments carry.                                                         *)

C3_FormatLookupNeverFails ==
    /\ panic # PanicNoFormat
    /\ (AddedSegment /\ LastSegment.toc.contains_raw_data) =>
           \A i \in 1..Len(active_objects) :
               object_registry[active_objects[i]].latest_data_format # None

(* C4  A segment that lists an object as MatchPrevious while the object    *)
(* has no latest_data_format is rejected, with or without raw data.  The   *)
(* statement checked asks only that the call fails, not how.               *)

\* entry i of the last segment is MatchPrevious and no RawData entry for
\* its path precedes it in the file
MatchPreviousWithoutFormat(i) ==
    LET object == LastSegment.objects[i]
    IN  /\ object.raw_data_index.kind = "MatchPrevious"
        /\ LastRawData(object.path,
                       EntriesUpTo(Len(segments) - 1)
                           \o SubSeq(LastSegment.objects, 1, i - 1)) = None

C4_MatchPreviousWithoutFormatRejected ==
    (/\ AddedSegment
     /\ \E i \in 1..Len(LastSegment.objects) : MatchPreviousWithoutFormat(i))
        => pc = "panicked"

(* C5  Failure atomicity: when an add_segment call fails, active_objects,  *)
(* object_registry, data_blocks and next_segment_start are what they were  *)
(* before the call.                                                        *)

C5_FailureLeavesScannerUnchanged ==
    pc = "panicked" =>
        /\ active_objects = before.active_objects
        /\ object_registry = before.object_registry
        /\ data_blocks = before.data_blocks
        /\ next_segment_start = before.next_segment_start

(* C6  Index monotonicity: the starts of consecutive data blocks are       *)
(* strictly increasing.                                                    *)

C6_BlockStartsIncrease ==
    \A b \in 1..(Len(data_blocks) - 1) :
        u64_lt(data_blocks[b].start, data_blocks[b + 1].start)

(* C7  The block of the k-th segment has start = (sum over the earlier     *)
(* segments j of next_segment_offset_j + 28) + 28 + raw_data_offset_k and  *)
(* length = next_segment_offset_k - raw_data_offset_k, and                 *)
(* next_segment_start advances by next_segment_offset + 28 with every      *)
(* segment.  The sums and the difference are those of the integers: a      *)
(* carry or a borrow out of 64 bits makes them differ from any u64.        *)

\* value + 2^64 * overflow is the sum of next_segment_offset + 28 over the
\* first n segments
RECURSIVE SizeOfSegments(_)
SizeOfSegments(n) ==
    IF n = 0 THEN [value |-> U64(0), overflow |-> FALSE]
    ELSE LET earlier == SizeOfSegments(n - 1)
             size == u64_add(segments[n].next_segment_offset, U64(28))
             sum == u64_add(earlier.value, size.value)
         IN  [value    |-> sum.value,
              overflow |-> earlier.overflow \/ size.overflow \/ sum.overflow]

C7_BlockPlacement ==
    /\ \A b \in 0..(Len(data_blocks) - 1) :
          LET k == SegmentOfBlock(b)
              earlier == SizeOfSegments(k - 1)
              lead == u64_add(earlier.value, U64(28))
              start == u64_add(lead.value, segments[k].raw_data_offset)
              length == u64_sub(segments[k].next_segment_offset,
                                segments[k].raw_data_offset)
          IN  /\ ~(earlier.overflow \/ lead.overflow \/ start.overflow)
              /\ data_blocks[b + 1].start = start.value
              /\ ~length.overflow
              /\ data_blocks[b + 1].length = length.value
    /\ pc # "panicked" =>
          /\ ~SizeOfSegments(Len(segments)).overflow
          /\ next_segment_start = SizeOfSegments(Len(segments)).value

(* C8  When a segment with raw data is added, the new block's channels     *)
(* are the latest formats of the active objects in active-list order,      *)
(* each active object gains exactly the location (new block, its position  *)
(* in the active list), and the locations of every other object stay.      *)

C8_BlockAndLocations ==
    (AddedSegmentOk /\ LastSegment.toc.contains_raw_data) =>
        LET b == Len(before.data_blocks)
        IN  /\ Len(data_blocks) = b + 1
            /\ Len(data_blocks[b + 1].channels) = Len(active_objects)
            /\ \A i \in 1..Len(active_objects) :
                  Some([RawData |-> data_blocks[b + 1].channels[i]])
                      = object_registry[active_objects[i]].latest_data_format
            /\ \A path \in DOMAIN object_registry :
                  object_registry[path].data_locations =
                      IF InList(path, active_objects)
                      THEN Append(LocationsBefore(path),
                                  [data_block    |-> b,
                                   channel_index |->
                                       PositionOf(path, active_objects)])
                      ELSE LocationsBefore(path)

\* a raw-data segment was added as the second one with data: its active
\* objects gained a location in block 1 and an object with earlier data,
\* no longer active, gained none
C8_Witness ==
    /\ AddedSegmentOk
    /\ LastSegment.toc.contains_raw_data
    /\ Len(data_blocks) = 2
    /\ active_objects # <<>>
    /\ \E path \in DOMAIN object_registry :
          /\ ~InList(path, active_objects)
          /\ object_registry[path].data_locations # <<>>

(* C9  A segment with contains_new_object_list clears only the active      *)
(* list: an object of the registry that the segment does not list keeps    *)
(* its properties, latest_data_format and data_locations; and no           *)
(* operation ever removes a key from the registry.                         *)

C9_RegistryKept ==
    /\ DOMAIN before.object_registry \subseteq DOMAIN object_registry
    /\ (AddedSegment /\ LastSegment.toc.contains_new_object_list) =>
          \A path \in DOMAIN before.object_registry :
              path \notin Listed(LastSegment) =>
                  object_registry[path] = before.object_registry[path]

\* a new-object-list segment with raw data deactivated an object that has
\* properties, a format and data, and listed another object
C9_Witness ==
    /\ AddedSegmentOk
    /\ LastSegment.toc.contains_new_object_list
    /\ LastSegment.toc.contains_raw_data
    /\ active_objects # <<>>
    /\ \E path \in DOMAIN before.object_registry :
          /\ path \notin Listed(LastSegment)
          /\ InList(path, before.active_objects)
          /\ DOMAIN object_registry[path].properties # {}
          /\ object_registry[path].latest_data_format # None
          /\ object_registry[path].data_locations # <<>>

(* C10  Active list order is stable: after an add_segment call without     *)
(* contains_new_object_list the active list is the list before the call    *)
(* followed by the newly activated objects in the order the segment lists  *)
(* them.                                                                   *)

\* the paths of the data-bearing entries that are not in active, each at
\* its first listing
RECURSIVE FirstActivations(_, _)
FirstActivations(objects, active) ==
    IF objects = <<>> THEN <<>>
    ELSE LET object == Head(objects)
         IN  IF HasData(object) /\ ~InList(object.path, active)
             THEN <<object.path>>
                      \o FirstActivations(Tail(objects),
                                          Append(active, object.path))
             ELSE FirstActivations(Tail(objects), active)

C10_ActiveOrderStable ==
    (AddedSegment /\ ~LastSegment.toc.contains_new_object_list) =>
        /\ IsPrefix(before.active_objects, active_objects)
        /\ active_objects =
               before.active_objects
                   \o FirstActivations(LastSegment.objects,
                                       before.active_objects)

\* a segment activated an object behind one that was active
C10_Witness ==
    /\ AddedSegmentOk
    /\ ~LastSegment.toc.contains_new_object_list
    /\ before.active_objects # <<>>
    /\ Len(active_objects) > Len(before.active_objects)

\* the names a property list sets
Names(pairs) == {pairs[i][1] : i \in 1..Len(pairs)}

\* the places <<i, j>> where the entries set a name for a path: entry i, in
\* file order, and pair j of its properties
Settings(path, name, entries) ==
    UNION {{<<i, j>> : j \in {j \in 1..Len(entries[i].properties) :
                                 entries[i].properties[j][1] = name}} :
              i \in {i \in 1..Len(entries) : entries[i].path = path}}

\* the last of some places, in file order
LastPlace(places) ==
    CHOOSE last \in places :
        \A place \in places :
            \/ place[1] < last[1]
            \/ place[1] = last[1] /\ place[2] <= last[2]

PropertyNames == {"Prop", "Prop1"}

(* C11  Last write wins: after any sequence of segments, an object has a   *)
(* property exactly when some entry for its path set that name, and the    *)
(* stored value is the one of the last such entry (segment order, then     *)
(* object order, then pair order), whatever the raw_data_index of the      *)
(* entry; names a later entry does not mention keep their values.          *)

C11_LastWriteWins ==
    LET entries == EntriesUpTo(Len(segments))
    IN  \A path \in Paths :
            /\ path \in DOMAIN object_registry
                   <=> \E i \in 1..Len(entries) : entries[i].path = path
            /\ path \in DOMAIN object_registry =>
                   /\ DOMAIN object_registry[path].properties \subseteq PropertyNames
                   /\ \A name \in PropertyNames :
                          LET places == Settings(path, name, entries)
                              stored == object_registry[path].properties
                          IN  /\ name \in DOMAIN stored <=> places # {}
                              /\ places # {} =>
                                     stored[name] =
                                         entries[LastPlace(places)[1]]
                                             .properties[LastPlace(places)[2]][2]

\* two entries set "Prop" of one object to different values, the later one
\* with a MatchPrevious index and without "Prop1", which the earlier one set
C11_Witness ==
    LET entries == EntriesUpTo(Len(segments))
    IN  /\ AddedSegment
        /\ Len(entries) = 2
        /\ entries[1].path = entries[2].path
        /\ entries[1].properties = <<<<"Prop", -52>>, <<"Prop1", -1>>>>
        /\ entries[2].properties = <<<<"Prop", -51>>>>
        /\ entries[2].raw_data_index = IndexMatchPrevious
        /\ object_registry[entries[1].path].properties["Prop"] = -51
        /\ object_registry[entries[1].path].properties["Prop1"] = -1

\* a segment with its entries i and i + 1 in the other order
Swapped(segment, i) ==
    [segment EXCEPT !.objects =
        [k \in 1..Len(segment.objects) |->
            IF k = i THEN segment.objects[i + 1]
            ELSE IF k = i + 1 THEN segment.objects[i]
            ELSE segment.objects[k]]]

\* entries i and i + 1 of a segment update one object and share no name
DisjointUpdates(segment, i) ==
    /\ i + 1 <= Len(segment.objects)
    /\ segment.objects[i].path = segment.objects[i + 1].path
    /\ Names(segment.objects[i].properties)
           \cap Names(segment.objects[i + 1].properties) = {}

(* C12  Property determinism: when a segment holds two successive updates  *)
(* of one object whose sets of property names are disjoint, the object's   *)
(* property map after the segment is the one that the same segment with    *)
(* the two updates in the other order yields.                              *)

C12_DisjointUpdatesCommute ==
    AddedSegment =>
        \A i \in 1..Len(LastSegment.objects) :
            DisjointUpdates(LastSegment, i) =>
                object_registry[LastSegment.objects[i].path].properties =
                    add_segment_to_index(before, Swapped(LastSegment, i),
                                         overflow_checks)
                        .object_registry[LastSegment.objects[i].path].properties

\* a segment set "Prop" and then "Prop1" of one object that had neither, and
\* the object has both values
C12_Witness ==
    /\ AddedSegment
    /\ DisjointUpdates(LastSegment, 1)
    /\ LastSegment.objects[1].properties = <<<<"Prop", -51>>>>
    /\ LastSegment.objects[2].properties = <<<<"Prop1", -2>>>>
    /\ LastSegment.objects[1].path \notin DOMAIN before.object_registry
    /\ object_registry[LastSegment.objects[1].path].properties
           = [name \in {"Prop", "Prop1"} |->
                 IF name = "Prop" THEN -51 ELSE -2]

\* the number of add_segment_to_index calls that returned
Returned == IF pc = "panicked" THEN Len(segments) - 1 ELSE Len(segments)

(* C13  A segment without contains_raw_data appends no data block and adds *)
(* no DataLocation to any object, whatever it lists; so the number of data *)
(* blocks is the number of added segments that had contains_raw_data, and  *)
(* get_data_block(index) of the Index made of the scanner is None exactly  *)
(* when index is at least that number.                                     *)

C13_NoRawDataNoBlock ==
    /\ (AddedSegment /\ ~LastSegment.toc.contains_raw_data) =>
           /\ data_blocks = before.data_blocks
           /\ \A path \in DOMAIN object_registry :
                  object_registry[path].data_locations = LocationsBefore(path)
    /\ Len(data_blocks) = Cardinality(RawSegments(Returned))
    /\ pc = "scanning" =>
           \A index \in 0..(MaxSegments + 1) :
               get_data_block(into_index(Scanner), index) = None
                   <=> index >= Cardinality(RawSegments(Len(segments)))

\* after a block with a channel, a segment without raw data listed an
\* object with a RawData index: one block, get_data_block(1) is None
C13_Witness ==
    /\ AddedSegmentOk
    /\ ~LastSegment.toc.contains_raw_data
    /\ \E i \in 1..Len(LastSegment.objects) :
          LastSegment.objects[i].raw_data_index.kind = "RawData"
    /\ Len(data_blocks) = 1
    /\ data_blocks[1].channels # <<>>
    /\ get_data_block(into_index(Scanner), 0) # None
    /\ get_data_block(into_index(Scanner), 1) = None

\* the last operation added a segment with raw data, without a new object
\* list, that lists no object
KeptChannels ==
    /\ AddedSegmentOk
    /\ LastSegment.toc.contains_raw_data
    /\ ~LastSegment.toc.contains_new_object_list
    /\ LastSegment.objects = <<>>

\* ... and it kept the active list and appended one block whose channels
\* are the formats the active objects had
KeptActiveList ==
    /\ active_objects = before.active_objects
    /\ Len(data_blocks) = Len(before.data_blocks) + 1
    /\ data_blocks[Len(data_blocks)].channels =
           [i \in 1..Len(before.active_objects) |->
               before.object_registry[before.active_objects[i]]
                   .latest_data_format[1].RawData]
    /\ \A i \in 1..Len(active_objects) :
          LET locations == object_registry[active_objects[i]].data_locations
          IN  /\ Len(locations) = Len(LocationsBefore(active_objects[i])) + 1
              /\ LocationsBefore(active_objects[i])
                     = SubSeq(locations, 1, Len(locations) - 1)
              /\ locations[Len(locations)].data_block = Len(before.data_blocks)

\* the channel index of the newest location of the i-th active object
NewChannelIndex(i) ==
    LET locations == object_registry[active_objects[i]].data_locations
    IN  locations[Len(locations)].channel_index

\* the channel indices the i-th active object had in the block before the
\* newest one
ChannelIndexInPreviousBlock(i) ==
    LET locations == LocationsBefore(active_objects[i])
    IN  {locations[n].channel_index :
            n \in {n \in 1..Len(locations) :
                      locations[n].data_block = Len(before.data_blocks) - 1}}

\* no segment since the one of the block before the newest one had
\* contains_new_object_list
NoNewListSincePreviousBlock ==
    \A k \in 1..Len(segments) :
        k > SegmentOfBlock(Len(before.data_blocks) - 1)
            => ~segments[k].toc.contains_new_object_list

(* C14  As claimed: a segment with contains_raw_data, without               *)
(* contains_new_object_list and with an empty object list (ToC 0xA or 0x8)  *)
(* leaves the active list unchanged, appends one block whose channels are   *)
(* the current formats of the active objects, and gives every active        *)
(* object one new DataLocation with the channel_index it had in the         *)
(* previous block.                                                          *)

C14_SameIndexAsPreviousBlock ==
    KeptChannels =>
        /\ KeptActiveList
        /\ \A i \in 1..Len(active_objects) :
              \A index \in ChannelIndexInPreviousBlock(i) :
                  NewChannelIndex(i) = index

(* C14  Amended: such a segment leaves the active list unchanged, appends   *)
(* one block whose channels are the current formats of the active objects,  *)
(* and gives every active object one new DataLocation whose channel_index   *)
(* is the object's position in the active list; that is the channel_index   *)
(* it had in the previous block when no segment since that block carried    *)
(* contains_new_object_list.                                                *)

C14_IndexIsActivePosition ==
    KeptChannels =>
        /\ KeptActiveList
        /\ \A i \in 1..Len(active_objects) :
              /\ NewChannelIndex(i) = i - 1
              /\ (before.data_blocks # <<>> /\ NoNewListSincePreviousBlock) =>
                     \A index \in ChannelIndexInPreviousBlock(i) :
                         NewChannelIndex(i) = index

\* a segment without meta data (ToC 0x8) gave two active channels a second
\* location each, with the indices they had in the previous block
C14_Witness ==
    /\ KeptChannels
    /\ ~LastSegment.toc.contains_meta_data
    /\ Len(active_objects) = 2
    /\ Len(data_blocks) = 2
    /\ NoNewListSincePreviousBlock
    /\ \A i \in 1..2 :
          /\ ChannelIndexInPreviousBlock(i) = {i - 1}
          /\ NewChannelIndex(i) = i - 1

\* the paths that the entries of a segment activate: data-bearing entries
\* for objects that were not active
Activated(segment, active) ==
    {segment.objects[i].path :
        i \in {i \in 1..Len(segment.objects) :
                  /\ HasData(segment.objects[i])
                  /\ ~InList(segment.objects[i].path, active)}}

\* the last operation added a segment with raw data and without a new
\* object list, whose entry i has a RawData index and is for the one
\* object that the segment activates
AppendedChannel(i) ==
    /\ AddedSegmentOk
    /\ LastSegment.toc.contains_raw_data
    /\ ~LastSegment.toc.contains_new_object_list
    /\ i <= Len(LastSegment.objects)
    /\ LastSegment.objects[i].raw_data_index.kind = "RawData"
    /\ Activated(LastSegment, before.active_objects)
           = {LastSegment.objects[i].path}

(* C15  An object with a RawData index that is not yet active, listed in a  *)
(* segment without contains_new_object_list, is appended to the end of the  *)
(* active list: the block of the segment has one channel more than there    *)
(* were active objects, the new location of the object (its first, if it    *)
(* had no data before) has channel_index = the previous active count, and   *)
(* the objects that were active get their positions as channel indices.     *)

C15_NewChannelAppended ==
    \A i \in 1..(IF segments = <<>> THEN 0 ELSE Len(LastSegment.objects)) :
        AppendedChannel(i) =>
            LET path == LastSegment.objects[i].path
                count == Len(before.active_objects)
                b == Len(before.data_blocks)
            IN  /\ active_objects = Append(before.active_objects, path)
                /\ Len(data_blocks) = b + 1
                /\ Len(data_blocks[b + 1].channels) = count + 1
                /\ object_registry[path].data_locations =
                       Append(LocationsBefore(path),
                              [data_block |-> b, channel_index |-> count])
                /\ \A k \in 1..count :
                       object_registry[before.active_objects[k]].data_locations
                           = Append(LocationsBefore(before.active_objects[k]),
                                    [data_block |-> b, channel_index |-> k - 1])

\* a second channel, never seen before, was appended behind an active one
\* that has data in both blocks
C15_Witness ==
    /\ AppendedChannel(1)
    /\ Len(before.active_objects) = 1
    /\ LastSegment.objects[1].path \notin DOMAIN before.object_registry
    /\ Len(data_blocks) = 2
    /\ Len(data_blocks[2].channels) = 2
    /\ object_registry[LastSegment.objects[1].path].data_locations
           = <<[data_block |-> 1, channel_index |-> 1]>>
    /\ Len(object_registry[active_objects[1]].data_locations) = 2

\* the last operation added a segment with contains_new_object_list
AddedNewList == AddedSegment /\ LastSegment.toc.contains_new_object_list

(* C16  After a segment with contains_new_object_list the active list is   *)
(* exactly the data-bearing objects the segment lists (those whose index   *)
(* is not None), in the order listed; its block, if it has raw data, gives *)
(* them the channel indices 0, 1, ...; and every other object, among them  *)
(* those that were active and are not listed, gains no DataLocation and    *)
(* keeps its earlier ones.                                                 *)

FormatOfEntries(path) ==
    LET last == LastRawData(path, EntriesUpTo(Len(segments)))
    IN  IF last = None THEN None ELSE Some([RawData |-> last[1]])

(* C17  A MatchPrevious entry never changes latest_data_format: the format *)
(* of every object is the one of its most recent RawData entry, whatever   *)
(* entries followed; and the block of a segment that lists an object as    *)
(* MatchPrevious has, at the channel of that object, the RawDataMeta of    *)
(* that RawData entry, with and without contains_new_object_list.          *)

C17_MatchPreviousKeepsFormat ==
    /\ \A path \in DOMAIN object_registry :
           object_registry[path].latest_data_format = FormatOfEntries(path)
    /\ (AddedSegmentOk /\ LastSegment.toc.contains_raw_data) =>
           \A i \in 1..Len(LastSegment.objects) :
               LastSegment.objects[i].raw_data_index = IndexMatchPrevious =>
                   LET path == LastSegment.objects[i].path
                   IN  /\ InList(path, active_objects)
                       /\ Some([RawData |->
                                  data_blocks[Len(data_blocks)]
                                      .channels[PositionOf(path, active_objects)
                                                    + 1]])
                              = FormatOfEntries(path)

\* an object got its format in one segment and was listed as MatchPrevious
\* in the next, which has a new object list and raw data: the block has the
\* format of the first segment
C17_Witness ==
    /\ AddedSegmentOk
    /\ Len(segments) = 2
    /\ LastSegment.toc.contains_raw_data
    /\ LastSegment.toc.contains_new_object_list
    /\ LastSegment.objects = <<[path |-> "group/ch1", properties |-> <<>>,
                                raw_data_index |-> IndexMatchPrevious]>>
    /\ segments[1].objects = <<[path |-> "group/ch1", properties |-> <<>>,
                                raw_data_index |-> IndexRawData(I32x500)]>>
    /\ data_blocks[Len(data_blocks)].channels = <<I32x500>>

(* C18  Ordering: the block of a segment, the one with the formats of the  *)
(* objects active in that segment, gets the index after those of all       *)
(* earlier segments, whose blocks stay where they were, so that blocks are *)
(* indexed in the order of their segments; the locations a segment adds    *)
(* name its block; and in the data_locations of every object the block     *)
(* indices are strictly increasing.                                        *)

C18_BlocksInSegmentOrder ==
    /\ (AddedSegmentOk /\ LastSegment.toc.contains_raw_data) =>
           /\ Len(data_blocks) = Len(before.data_blocks) + 1
           /\ IsPrefix(before.data_blocks, data_blocks)
           /\ data_blocks[Len(data_blocks)].channels
                  = get_active_raw_data_meta(Scanner).metas
           /\ \A path \in DOMAIN object_registry :
                  \A n \in 1..Len(object_registry[path].data_locations) :
                      n > Len(LocationsBefore(path)) =>
                          object_registry[path].data_locations[n].data_block
                              = Len(before.data_blocks)
    /\ \A path \in DOMAIN object_registry :
           LET locations == object_registry[path].data_locations
           IN  \A n, m \in 1..Len(locations) :
                   n < m => locations[n].data_block < locations[m].data_block

\* two raw-data segments with different channels gave one object a
\* location in block 0 and then one in block 1
C18_Witness ==
    /\ AddedSegmentOk
    /\ Len(data_blocks) = 2
    /\ data_blocks[1].channels # data_blocks[2].channels
    /\ \E path \in DOMAIN object_registry :
          /\ Len(object_registry[path].data_locations) = 2
          /\ object_registry[path].data_locations[1].data_block = 0
          /\ object_registry[path].data_locations[2].data_block = 1

(* C19  DataBlocks are append-only: every add_segment call leaves each     *)
(* block appended before it as it was, in start, length, layout, channels  *)
(* and byte_order, also when the segment gives an active object a new      *)
(* RawData format.                                                         *)

C19_BlocksAppendOnly ==
    AddedSegment =>
        /\ Len(before.data_blocks) <= Len(data_blocks)
        /\ \A b \in 1..Len(before.data_blocks) :
              /\ data_blocks[b].start = before.data_blocks[b].start
              /\ data_blocks[b].length = before.data_blocks[b].length
              /\ data_blocks[b].layout = before.data_blocks[b].layout
              /\ data_blocks[b].channels = before.data_blocks[b].channels
              /\ data_blocks[b].byte_order = before.data_blocks[b].byte_order

\* a segment gave the one active object another format than it has in
\* block 0: block 0 has the old format, the new block the new one
C19_Witness ==
    /\ AddedSegmentOk
    /\ LastSegment.toc.contains_raw_data
    /\ before.active_objects = <<"group/ch1">>
    /\ active_objects = <<"group/ch1">>
    /\ before.object_registry["group/ch1"].latest_data_format
           = Some([RawData |-> DoubleFloat1000])
    /\ object_registry["group/ch1"].latest_data_format
           = Some([RawData |-> I32x500])
    /\ data_blocks[1].channels = <<DoubleFloat1000>>
    /\ data_blocks[2].channels = <<I32x500>>

(* C20  into_index returns an Index whose objects and data_blocks are the  *)
(* registry and the data blocks the scanner had at the call, with every    *)
(* property, format and location; no query changes the Index; and what a   *)
(* reader got from a query, whatever queries it and the other readers      *)
(* made before, is what that query returns on the Index as into_index      *)
(* returned it, which is the result of running the queries one by one.     *)

C20_IndexIsScannerAndQueriesArePure ==
    pc = "indexed" =>
        /\ object_registry = before.object_registry
        /\ data_blocks = before.data_blocks
        /\ TheIndex = into_index(before)
        /\ \A reader \in Readers :
              readers[reader] # None =>
                  readers[reader][1].result
                      = Answer([objects     |-> before.object_registry,
                                data_blocks |-> before.data_blocks],
                               readers[reader][1].query)

\* the scanner had an active channel with a location when it became the
\* Index; one reader holds the locations of the channel, the other its
\* property
C20_Witness ==
    /\ pc = "indexed"
    /\ before.active_objects = <<"group/ch1">>
    /\ readers["reader1"] =
           Some([query  |-> [method |-> "get_channel_data_positions",
                             path   |-> "group/ch1"],
                 result |-> Some(<<[data_block |-> 0, channel_index |-> 0]>>)])
    /\ readers["reader2"] =
           Some([query  |-> [method |-> "get_object_property",
                             path |-> "group/ch1", property |-> "Prop"],
                 result |-> Ok(Some(-51))])

\* the entries that the submitted segments hold for a path
EntriesOf(path) ==
    LET entries == EntriesUpTo(Len(segments))
    IN  {i \in 1..Len(entries) : entries[i].path = path}

\* some submitted entry for the path sets the property
EverSet(path, property) ==
    Settings(path, property, EntriesUpTo(Len(segments))) # {}

\* some submitted entry for the path has an index other than None
EverHadData(path) ==
    \E i \in EntriesOf(path) : HasData(EntriesUpTo(Len(segments))[i])

\* what C21 says of one answered query
LookupAsClaimed(query, result) ==
    CASE query.method = "get_object_property" ->
             /\ EntriesOf(query.path) = {}
                    <=> result = Err(MissingObject(query.path))
             /\ (EntriesOf(query.path) # {}
                     /\ ~EverSet(query.path, query.property))
                    => result = Ok(None)
      [] query.method = "get_object_properties" ->
             EntriesOf(query.path) = {} <=> result = None
      [] query.method = "get_channel_data_positions" ->
             /\ EntriesOf(query.path) = {} <=> result = None
             /\ (EntriesOf(query.path) # {} /\ ~EverHadData(query.path))
                    => result = Some(<<>>)
      [] OTHER -> TRUE

(* C21  Lookups on a path that no segment ever listed report not-found:    *)
(* get_object_property returns the error MissingObject(path), and          *)
(* get_object_properties and get_channel_data_positions return None; on a  *)
(* listed path, get_object_property for a name that was never set returns  *)
(* Ok(None), and get_channel_data_positions for an object that never       *)
(* carried data returns the empty sequence, not None.                      *)

C21_LookupsReportNotFound ==
    \A reader \in Readers :
        readers[reader] # None =>
            LookupAsClaimed(readers[reader][1].query,
                            readers[reader][1].result)

\* one reader asked for a property of an object that was never listed, the
\* other for the locations of a listed object without data
C21_Witness ==
    /\ pc = "indexed"
    /\ "group" \in DOMAIN object_registry
    /\ readers["reader1"] =
           Some([query  |-> [method |-> "get_object_property",
                             path |-> "group/ch3", property |-> "Prop"],
                 result |-> Err(MissingObject("group/ch3"))])
    /\ readers["reader2"] =
           Some([query  |-> [method |-> "get_channel_data_positions",
                             path   |-> "group"],
                 result |-> Some(<<>>)])


-----------------------------------------------------------------------------
(* The writer.                                                             *)

\* call i of the run wrote its segment: write_channels returned Ok
Emitted(i) == writer.calls[i].segment # None

\* the calls that wrote their segment, in order: the k-th of them wrote
\* segments[k]
RECURSIVE EmittedCalls(_)
EmittedCalls(n) ==
    IF n = 0 THEN <<>>
    ELSE IF Emitted(n) THEN Append(EmittedCalls(n - 1), writer.calls[n])
    ELSE EmittedCalls(n - 1)

\* the last operation was a write_channels call that wrote its segment
WroteSegment == writer.calls # <<>> /\ Emitted(Len(writer.calls))

(* C22: every segment that write_channels emits has a ToC with              *)
(* contains_meta_data = ~matches_live, contains_new_object_list =           *)
(* ~matches_live, contains_raw_data = TRUE and the interleaved flag set     *)
(* exactly when the layout of the call is interleaved.                      *)
C22_ToCOfWrittenSegment ==
    \A i \in 1..Len(writer.calls) :
        Emitted(i) =>
            LET call == writer.calls[i]
                toc == call.segment[1].toc
            IN  /\ toc.contains_meta_data = ~call.matches_live[1]
                /\ toc.contains_new_object_list = ~call.matches_live[1]
                /\ toc.contains_raw_data = TRUE
                /\ toc.data_is_interleaved = (call.layout = "Interleaved")

C22_Witness ==
    /\ Len(writer.calls) = 2
    /\ Emitted(1) /\ writer.calls[1].matches_live = Some(FALSE)
    /\ writer.calls[1].layout = "Contigious"
    /\ Emitted(2) /\ writer.calls[2].matches_live = Some(TRUE)
    /\ writer.calls[2].layout = "Interleaved"

(* C23: a segment that write_channels emits has a meta data block exactly   *)
(* when matches_live is false, and the block lists exactly the channels of  *)
(* the call, in the order of the call, each with a RawData index and no     *)
(* properties.                                                              *)
C23_MetaDataOfWrittenSegment ==
    \A i \in 1..Len(writer.calls) :
        Emitted(i) =>
            LET call == writer.calls[i]
                meta == call.segment[1].meta_data
            IN  /\ meta # None <=> ~call.matches_live[1]
                /\ meta # None =>
                       /\ Len(meta[1].objects) = Len(call.channels)
                       /\ \A j \in 1..Len(call.channels) :
                              /\ meta[1].objects[j].path = call.channels[j]
                              /\ meta[1].objects[j].raw_data_index.kind
                                     = "RawData"
                              /\ meta[1].objects[j].properties = <<>>

C23_Witness ==
    /\ Len(writer.calls) = 2
    /\ Emitted(1) /\ writer.calls[1].segment[1].meta_data # None
    /\ writer.calls[1].channels = <<"group/ch2", "group/ch1">>
    /\ Emitted(2) /\ writer.calls[2].segment[1].meta_data = None

\* the last call before call i that wrote its segment, 0 if there is none
PrecedingWrite(i) ==
    LET wrote == {j \in 1..(i - 1) : Emitted(j)}
    IN  IF wrote = {} THEN 0 ELSE CHOOSE j \in wrote : \A k \in wrote : k <= j

\* call i repeats the paths, their order, the element type and the number
\* of values per channel of call j
Repeats(i, j) ==
    /\ writer.calls[i].channels = writer.calls[j].channels
    /\ writer.calls[i].storage_type = writer.calls[j].storage_type
    /\ writer.calls[i].values_len \div Len(writer.calls[i].channels)
           = writer.calls[j].values_len \div Len(writer.calls[j].channels)

LocationsOf(scanner, path) ==
    IF path \in DOMAIN scanner.object_registry
    THEN scanner.object_registry[path].data_locations ELSE <<>>

\* the segments (from 1) whose call wrote the channel
WritesTo(path) ==
    {k \in 1..Len(EmittedCalls(Len(writer.calls))) :
        InList(path, EmittedCalls(Len(writer.calls))[k].channels)}

(* C25: a write_channels call that returns Ok has applied add_segment with  *)
(* the segment it wrote: there is one data block more, every channel of     *)
(* the call has one DataLocation more, which points at that block, and no   *)
(* other channel has; and a channel that k such calls wrote has k           *)
(* locations, in the order of the calls.                                    *)
C25_WriteAddsBlockAndLocations ==
    /\ WroteSegment =>
           LET call == writer.calls[Len(writer.calls)]
           IN  /\ Len(data_blocks) = Len(before.data_blocks) + 1
               /\ \A path \in DOMAIN object_registry :
                      LocationsOf(Scanner, path) =
                          IF InList(path, call.channels)
                          THEN Append(LocationsOf(before, path),
                                      [data_block |-> Len(before.data_blocks),
                                       channel_index |->
                                           PositionOf(path, call.channels)])
                          ELSE LocationsOf(before, path)
               /\ \A j \in 1..Len(call.channels) :
                      call.channels[j] \in DOMAIN object_registry
    /\ \A path \in Paths :
           /\ Len(LocationsOf(Scanner, path)) = Cardinality(WritesTo(path))
           /\ \A n \in 1..Len(LocationsOf(Scanner, path)) :
                  /\ LocationsOf(Scanner, path)[n].data_block + 1
                         \in WritesTo(path)
                  /\ \A m \in 1..(n - 1) :
                         LocationsOf(Scanner, path)[m].data_block
                             < LocationsOf(Scanner, path)[n].data_block

C25_Witness ==
    /\ Len(writer.calls) = 2
    /\ Emitted(1) /\ Emitted(2)
    /\ writer.calls[1].channels = <<"group/ch1", "group/ch2">>
    /\ writer.calls[2].channels = <<"group/ch2", "group/ch1">>
    /\ Len(LocationsOf(Scanner, "group/ch1")) = 2

\* the scanner that add_segment_to_index makes of the first n segments
RECURSIVE Replayed(_)
Replayed(n) ==
    IF n = 0 THEN FileScanner_new
    ELSE add_segment_to_index(Replayed(n - 1), segments[n], overflow_checks)

-----------------------------------------------------------------------------
(* The codec.                                                              *)

\* a value was written and read back in the byte order of the write
ReadBack == codec # None /\ codec.op = "read"

(* C27: a value of u8, i32, u32, u64, f32, f64 (as bit patterns) or String  *)
(* that is written and read back in the same byte order is read as          *)
(* itself: read_le(write_le(v)) = v and read_be(write_be(v)) = v.           *)
C27_RoundTrip == ReadBack => codec.read = Ok(codec.value)

(* C28: the bytes that a write puts out are v.size() bytes; for a String    *)
(* that is the length of its UTF-8 bytes and 4.                             *)
C28_SizeIsBytesWritten ==
    (codec # None /\ codec.op \in {"write", "read"}) =>
        /\ stream_len(codec.stream) = codec.size
        /\ codec.storage_type = "String" =>
               codec.size = u64_add(String_len(codec.value), U64(4)).value

C28_Witness ==
    /\ codec # None /\ codec.op = "write"
    /\ codec.storage_type = "String"
    /\ codec.value = [chars |-> <<8364, 65>>, tail |-> 0]
    /\ codec.size = U64(8)

(* C29: supports_data_type(D) of T is TRUE exactly when D is in the         *)
(* supported set of T: f64 takes DoubleFloat and DoubleFloatWithUnit and    *)
(* nothing else, f32 takes SingleFloat and SingleFloatWithUnit and nothing  *)
(* else, and every T takes its natural type.                                *)
C29_SupportedTypes ==
    (codec # None /\ codec.op = "supports_data_type") =>
        /\ codec.result = (codec.data_type \in SUPPORTED_TYPES(codec.storage_type))
        /\ codec.storage_type = "f64" =>
               codec.result = (codec.data_type \in
                                   {"DoubleFloat", "DoubleFloatWithUnit"})
        /\ codec.storage_type = "f32" =>
               codec.result = (codec.data_type \in
                                   {"SingleFloat", "SingleFloatWithUnit"})
        /\ codec.data_type = NATURAL_TYPE(codec.storage_type) => codec.result

C29_Witness ==
    /\ codec # None /\ codec.op = "supports_data_type"
    /\ codec.storage_type = "f64"
    /\ codec.data_type = "DoubleFloatWithUnit"
    /\ codec.result


-----------------------------------------------------------------------------
(* Block reads.                                                            *)

\* a contiguous block was read
ReadContiguous ==
    block_read # None /\ block_read.block.layout = "Contigious"

-----------------------------------------------------------------------------
(* C31: every data block has the layout and the byte order that the ToC of  *)
(* its segment gives: Interleaved exactly when the interleaved flag is set, *)
(* else Contigious, and Big exactly when the big-endian flag is set, else   *)
(* Little, whatever the channels and whatever the segments before it.       *)
C31_LayoutAndOrderFromToC ==
    \A b \in 0..(Len(data_blocks) - 1) :
        LET toc == segments[SegmentOfBlock(b)].toc
        IN  /\ data_blocks[b + 1].layout =
                   IF toc.data_is_interleaved THEN "Interleaved"
                   ELSE "Contigious"
            /\ data_blocks[b + 1].byte_order =
                   IF toc.big_endian THEN "Big" ELSE "Little"

\* two blocks of the same channels, the first contiguous and big-endian,
\* the second interleaved and little-endian
C31_Witness ==
    /\ Len(data_blocks) = 2
    /\ data_blocks[1].channels = data_blocks[2].channels
    /\ data_blocks[1].channels # <<>>
    /\ data_blocks[1].layout = "Contigious"
    /\ data_blocks[1].byte_order = "Big"
    /\ data_blocks[2].layout = "Interleaved"
    /\ data_blocks[2].byte_order = "Little"

-----------------------------------------------------------------------------
\* the path had data-bearing entries in the segments before the last one
ListedWithDataBefore(path) ==
    \E k \in 1..(Len(segments) - 1) :
        \E j \in 1..Len(segments[k].objects) :
            /\ segments[k].objects[j].path = path
            /\ HasData(segments[k].objects[j])

\* the last operation added a segment without a new object list whose
\* entry i has a RawData index and is the first entry with data for an
\* object that was active once and was dropped from the active list
ReAddedChannel(i) ==
    /\ AddedSegmentOk
    /\ ~LastSegment.toc.contains_new_object_list
    /\ i <= Len(LastSegment.objects)
    /\ LastSegment.objects[i].raw_data_index.kind = "RawData"
    /\ ListedWithDataBefore(LastSegment.objects[i].path)
    /\ ~InList(LastSegment.objects[i].path, before.active_objects)
    /\ \A j \in 1..(i - 1) :
           HasData(LastSegment.objects[j])
               => LastSegment.objects[j].path # LastSegment.objects[i].path

\* the objects that the entries before entry i of the last segment activate
ActivatedBefore(i) ==
    {LastSegment.objects[j].path :
        j \in {j \in 1..(i - 1) :
                  /\ HasData(LastSegment.objects[j])
                  /\ ~InList(LastSegment.objects[j].path,
                             before.active_objects)}}

(* C32: an object that a new object list dropped from the active list and   *)
(* that a later segment without contains_new_object_list lists with a       *)
(* RawData index is appended at the end of the active list of that moment:  *)
(* its position, and the channel_index of its location in the block of the  *)
(* segment, is the number of objects active before it, and its              *)
(* data_locations are the earlier ones followed by the new one.             *)
C32_DroppedChannelReAppended ==
    \A i \in 1..(IF segments = <<>> THEN 0 ELSE Len(LastSegment.objects)) :
        ReAddedChannel(i) =>
            LET path == LastSegment.objects[i].path
                count == Len(before.active_objects)
                            + Cardinality(ActivatedBefore(i))
            IN  /\ IsPrefix(before.active_objects, active_objects)
                /\ InList(path, active_objects)
                /\ PositionOf(path, active_objects) = count
                /\ object_registry[path].data_locations =
                       IF LastSegment.toc.contains_raw_data
                       THEN Append(LocationsBefore(path),
                                   [data_block    |-> Len(before.data_blocks),
                                    channel_index |-> count])
                       ELSE LocationsBefore(path)

\* ch1 was channel 0 of block 0, a new object list left ch2 alone active,
\* and the third segment lists ch1 again: it is channel 1 of block 2
C32_Witness ==
    /\ ReAddedChannel(1)
    /\ LastSegment.objects[1].path = "group/ch1"
    /\ active_objects = <<"group/ch2", "group/ch1">>
    /\ object_registry["group/ch1"].data_locations =
           <<[data_block |-> 0, channel_index |-> 0],
             [data_block |-> 2, channel_index |-> 1]>>

-----------------------------------------------------------------------------
\* the last operation added a segment without a new object list whose
\* entry i has a RawData index for an object that was active
ReplacedFormat(i) ==
    /\ AddedSegmentOk
    /\ ~LastSegment.toc.contains_new_object_list
    /\ i <= Len(LastSegment.objects)
    /\ LastSegment.objects[i].raw_data_index.kind = "RawData"
    /\ InList(LastSegment.objects[i].path, before.active_objects)

-----------------------------------------------------------------------------
\* the entries of a segment that have a raw data index other than None
WithoutNoneEntries(segment) ==
    [segment EXCEPT !.objects = SelectSeq(@, HasData)]

\* the scanner, had the last segment come without its None entries
WithoutNone ==
    add_segment_to_index(before, WithoutNoneEntries(LastSegment),
                         overflow_checks)

(* C34: an entry with raw_data_index None changes neither the active list   *)
(* nor a latest_data_format: the active list, the blocks and the locations  *)
(* are those the segment gives without its None entries, an object that     *)
(* only None entries list has the format it had (none if it is new), and    *)
(* an active object that a raw-data segment without contains_new_object_    *)
(* list lists with None gets its DataLocation in the block of the segment.  *)
C34_NoneEntryKeepsActiveList ==
    AddedSegmentOk =>
        /\ \E without \in {WithoutNone} :
               /\ active_objects = without.active_objects
               /\ data_blocks = without.data_blocks
               /\ \A path \in DOMAIN object_registry :
                      /\ object_registry[path].data_locations =
                             LocationsOf(without, path)
                      /\ object_registry[path].latest_data_format =
                             IF path \in DOMAIN without.object_registry
                             THEN without.object_registry[path]
                                      .latest_data_format
                             ELSE None
        /\ (\A i \in 1..Len(LastSegment.objects) :
                ~HasData(LastSegment.objects[i])) =>
               /\ active_objects = IF LastSegment.toc.contains_new_object_list
                                   THEN <<>> ELSE before.active_objects
               /\ \A path \in DOMAIN before.object_registry :
                      object_registry[path].latest_data_format
                          = before.object_registry[path].latest_data_format
               /\ (LastSegment.toc.contains_raw_data
                       /\ ~LastSegment.toc.contains_new_object_list) =>
                      \A k \in 1..Len(before.active_objects) :
                          object_registry[before.active_objects[k]]
                                  .data_locations =
                              Append(LocationsBefore(before.active_objects[k]),
                                     [data_block |-> Len(before.data_blocks),
                                      channel_index |-> k - 1])

\* ch1 is active with one location; a raw-data segment without a new object
\* list lists it with None: it stays active and gets its second location
C34_Witness ==
    /\ AddedSegmentOk
    /\ LastSegment.toc.contains_raw_data
    /\ ~LastSegment.toc.contains_new_object_list
    /\ LastSegment.objects = <<[path |-> "group/ch1", properties |-> <<>>,
                                raw_data_index |-> IndexNone]>>
    /\ before.active_objects = <<"group/ch1">>
    /\ active_objects = <<"group/ch1">>
    /\ object_registry["group/ch1"].data_locations =
           <<[data_block |-> 0, channel_index |-> 0],
             [data_block |-> 1, channel_index |-> 0]>>

-----------------------------------------------------------------------------
\* call i returned an error
Failed(i) == "err" \in DOMAIN writer.calls[i].result

(* C35: a write_channels call that fails, because the values cannot be      *)
(* shared out among the channels or because the sink fails, returns that    *)
(* error and leaves the index as it was: the active list, the registry, the *)
(* data blocks and the next segment start; and the call after a failed one  *)
(* computes matches_live against the index as it was before the failed      *)
(* call.                                                                    *)
C35_FailedWriteLeavesIndex ==
    /\ \A i \in 1..Len(writer.calls) :
           LET call == writer.calls[i]
           IN  /\ Failed(i) <=> ~Emitted(i)
               /\ call.values_len % Len(call.channels) # 0 =>
                      call.result = Err(SliceError)
               /\ call.matches_live = None <=> call.result = Err(SliceError)
    /\ (writer.calls # <<>> /\ Failed(Len(writer.calls))) =>
           /\ active_objects = before.active_objects
           /\ object_registry = before.object_registry
           /\ data_blocks = before.data_blocks
           /\ next_segment_start = before.next_segment_start
           /\ Len(segments) = Len(EmittedCalls(Len(writer.calls) - 1))
    /\ \A i \in 2..Len(writer.calls) :
           (Failed(i - 1) /\ writer.calls[i].matches_live # None) =>
               writer.calls[i].matches_live[1]
                   = /\ PrecedingWrite(i - 1) # 0
                     /\ Repeats(i, PrecedingWrite(i - 1))

\* a call that wrote two channels, a call of the same that the sink failed,
\* and the same call again, which matches the live channels and adds the
\* second data block
C35_Witness ==
    /\ Len(writer.calls) = 3
    /\ Emitted(1) /\ writer.calls[1].channels = <<"group/ch1", "group/ch2">>
    /\ writer.calls[2].result = Err(IoError)
    /\ Repeats(2, 1) /\ Repeats(3, 1)
    /\ writer.calls[3].matches_live = Some(TRUE)
    /\ Emitted(3)
    /\ Len(data_blocks) = 2

-----------------------------------------------------------------------------
(* C36: after every write_channels call that wrote its segment, whatever    *)
(* its channel list P, a list that names one path twice included, the       *)
(* active list of the scanner is P in order, and the data block the call    *)
(* added has as many channels as P, the number of channels the payload is   *)
(* laid out for.                                                            *)
C36_ActiveListIsWrittenList ==
    WroteSegment =>
        LET call == writer.calls[Len(writer.calls)]
        IN  /\ active_objects = call.channels
            /\ Len(data_blocks) = Len(before.data_blocks) + 1
            /\ Len(data_blocks[Len(data_blocks)].channels)
                   = Len(call.channels)

-----------------------------------------------------------------------------
(* C37: in every state of the scanner every active object is registered,    *)
(* so no lookup of the registered version of an active object fails, and    *)
(* update_meta_object never inserts over an object that is registered.      *)
C37_ActiveObjectsRegistered ==
    /\ \A i \in 1..Len(active_objects) :
           active_objects[i] \in DOMAIN object_registry
    /\ panic # PanicNotRegistered
    /\ panic # PanicReplacing

\* two segments with raw data: the first activates and registers a channel,
\* the second, without a new list, looks the active channel up to replace
\* its format and to give it its second location
C37_Witness ==
    /\ Len(segments) = 2
    /\ panic = NoPanic
    /\ Len(data_blocks) = 2
    /\ ~segments[2].toc.contains_new_object_list
    /\ Len(segments[1].objects) = 1
    /\ Len(segments[2].objects) = 1
    /\ segments[1].objects[1].path = segments[2].objects[1].path
    /\ segments[1].objects[1].raw_data_index.kind = "RawData"
    /\ segments[2].objects[1].raw_data_index.kind = "RawData"
    /\ active_objects = <<segments[1].objects[1].path>>
    /\ Len(object_registry[active_objects[1]].data_locations) = 2

-----------------------------------------------------------------------------
(* C39: the u64 arithmetic of add_segment never leaves 64 bits: for every   *)
(* segment submitted, next_segment_offset - raw_data_offset has no borrow,  *)
(* and next_segment_start + next_segment_offset + 28 and the start of the   *)
(* block have no carry, the segment whose next_segment_offset is the        *)
(* marker 0xFFFFFFFFFFFFFFFF of an unterminated segment included; so no     *)
(* call panics on its arithmetic and none wraps.                            *)
C39_ArithmeticNeverWraps ==
    /\ panic # PanicAddOverflow
    /\ panic # PanicSubOverflow
    /\ AddedSegment =>
           LET size == u64_add(LastSegment.next_segment_offset, LEAD_IN_BYTES)
               next == u64_add(before.next_segment_start, size.value)
               lead == u64_add(LastSegment.raw_data_offset, LEAD_IN_BYTES)
               start == u64_add(lead.value, before.next_segment_start)
               length == u64_sub(LastSegment.next_segment_offset,
                                 LastSegment.raw_data_offset)
           IN  /\ ~size.overflow
               /\ ~next.overflow
               /\ LastSegment.toc.contains_raw_data =>
                      /\ ~lead.overflow
                      /\ ~start.overflow
                      /\ ~length.overflow

-----------------------------------------------------------------------------
\* the raw data of the segment of block b (from 0) does not start beyond the
\* end of the segment
WithinSegment(b) ==
    u64_le(segments[SegmentOfBlock(b)].raw_data_offset,
           segments[SegmentOfBlock(b)].next_segment_offset)

(* C38: a data block built from a segment with raw_data_offset <=           *)
(* next_segment_offset ends where the following segment starts: start +     *)
(* length is the next_segment_start of the scanner after the call; and the  *)
(* blocks overlap neither each other nor the lead-in of the next segment:   *)
(* start + length + 28 of a block is at most the start of the block after   *)
(* it.  The sums are those of the integers.                                 *)
C38_BlocksDoNotOverlap ==
    /\ (/\ AddedSegmentOk
        /\ LastSegment.toc.contains_raw_data
        /\ u64_le(LastSegment.raw_data_offset,
                  LastSegment.next_segment_offset)) =>
           LET block == data_blocks[Len(data_blocks)]
               end == u64_add(block.start, block.length)
           IN  /\ ~end.overflow
               /\ end.value = next_segment_start
    /\ \A b \in 1..(Len(data_blocks) - 1) :
           WithinSegment(b - 1) =>
               LET end == u64_add(data_blocks[b].start, data_blocks[b].length)
                   lead == u64_add(end.value, LEAD_IN_BYTES)
               IN  /\ ~end.overflow
                   /\ ~lead.overflow
                   /\ u64_le(lead.value, data_blocks[b + 1].start)

====
